---- MODULE Spec2Model ----
(***************************************************************************)
(* Model of the translation resolution pipeline of agentic-translator:     *)
(* TranslationValidator (core/validator.py), DictionaryDatabase            *)
(* (core/dictionary_db.py), TranslationMemory (core/memory.py),            *)
(* AgenticTranslator (core/agent.py) and the session registry and          *)
(* endpoints of api/main.py.                                               *)
(*                                                                         *)
(* Texts are sequences of one-character strings.  Similarities and scores  *)
(* are integers in hundredths (0.7 is 70, 0.95 is 95).                     *)
(***************************************************************************)
EXTENDS Integers, Sequences, FiniteSets, TLC

\* sessions: the registry of api/main.py, translators in insertion order,
\*   each with its session_id, its request_count and whether it has a memory
\* dictionary: the entries of the dictionary collection, in insertion order
\* translations, session_docs: the two collections of TranslationMemory
\* last: the last operation: its request, the stages it entered, what it
\*   returned or raised, and the state it started from
\* MAX_SESSIONS: the capacity of the registry, read from the environment
\*   when api/main.py is imported
\* accessed: the session ids in the order of their last access, the most
\*   recent last; an access is a call of _get_or_create_session on the id
\* handlers: the requests being served, each with the line of
\*   _get_or_create_session or of the count it is at and its local variables
\* creator: for each session id, which request created the translator now
\*   registered for it and how many were created since the id was last absent
\* logger: the lock of the TranslationLogger, its log file as the chunks
\*   written to it, and the position of each thread in a call of log
VARIABLES sessions, dictionary, translations, session_docs, last,
          MAX_SESSIONS, accessed, handlers, creator, logger

vars == <<sessions, dictionary, translations, session_docs, last,
          MAX_SESSIONS, accessed, handlers, creator, logger>>

(***************************************************************************)
(* Bounds of the model: the largest request_count, the number of stored    *)
(* translations and the number of dictionary entries explored, and the     *)
(* number of translations stored when the memory is exercised on its own, *)
(* and the number of provider calls over which the rate limiting is        *)
(* followed.                                                               *)
(***************************************************************************)
MaxCount == 2
MaxRecords == 1
MaxTerms == 4
MaxStored == 2
MaxCalls == 10

(***************************************************************************)
(* Characters and Python str methods.                                      *)
(***************************************************************************)
\* Python None, written as a text that no str value equals
None == <<"None">>

\* truth value of an Optional[str]
Truthy(x) == x # None /\ x # <<>>

LowerChars ==
  <<"a","b","c","d","e","f","g","h","i","j","k","l","m",
    "n","o","p","q","r","s","t","u","v","w","x","y","z">>

UpperChars ==
  <<"A","B","C","D","E","F","G","H","I","J","K","L","M",
    "N","O","P","Q","R","S","T","U","V","W","X","Y","Z">>

UpperSet == {UpperChars[i] : i \in 1..26}

LowerSet == {LowerChars[i] : i \in 1..26}

\* str.lower() and str.upper() of one cased character
ToLower == [c \in UpperSet |-> LowerChars[CHOOSE i \in 1..26 : UpperChars[i] = c]]

ToUpper == [c \in LowerSet |-> UpperChars[CHOOSE i \in 1..26 : LowerChars[i] = c]]

IsUpperChar(c) == c \in UpperSet

IsLowerChar(c) == c \in LowerSet

LowerChar(c) == IF c \in UpperSet THEN ToLower[c] ELSE c

UpperChar(c) == IF c \in LowerSet THEN ToUpper[c] ELSE c

\* str.lower()
Lower(s) == SubSeq([i \in 1..Len(s) |-> LowerChar(s[i])], 1, Len(s))

\* str.upper()
Upper(s) == SubSeq([i \in 1..Len(s) |-> UpperChar(s[i])], 1, Len(s))

\* str.isupper(): at least one cased character and no lowercase one
IsUpper(s) ==
  /\ \E i \in 1..Len(s) : IsUpperChar(s[i])
  /\ \A i \in 1..Len(s) : ~IsLowerChar(s[i])

\* the characters that \s matches and str.strip() removes
IsSpace(c) == c \in {" ", "\t", "\n"}

\* the characters of [\x00-\x08\x0B\x0C\x0E-\x1F\x7F]; "^G" stands for \x07
IsControl(c) == c \in {"^G"}

RECURSIVE LStrip(_)
LStrip(s) ==
  IF s # <<>> /\ IsSpace(Head(s)) THEN LStrip(Tail(s)) ELSE s

RECURSIVE RStrip(_)
RStrip(s) ==
  IF s # <<>> /\ IsSpace(s[Len(s)]) THEN RStrip(SubSeq(s, 1, Len(s) - 1)) ELSE s

\* str.strip()
Strip(s) == RStrip(LStrip(s))

\* s[i:] starts with sub
StartsWithAt(s, i, sub) ==
  /\ i + Len(sub) - 1 <= Len(s)
  /\ \A k \in 1..Len(sub) : s[i + k - 1] = sub[k]

\* sub in s
Contains(s, sub) == \E i \in 1..(Len(s) + 1) : StartsWithAt(s, i, sub)

\* s[n:]
Drop(s, n) == SubSeq(s, n + 1, Len(s))

\* str.replace(old, new), old non-empty
RECURSIVE Replace(_, _, _)
Replace(s, old, new) ==
  IF s = <<>> THEN <<>>
  ELSE IF StartsWithAt(s, 1, old) THEN new \o Replace(Drop(s, Len(old)), old, new)
  ELSE <<Head(s)>> \o Replace(Tail(s), old, new)

(***************************************************************************)
(* TranslationValidator.validate_input                                     *)
(***************************************************************************)
max_length == 5000
min_length == 1

supported_languages == {"zu", "en", "af", "xh", "nso", "st", "ts", "ss", "ve", "tn", "nr"}

\* re.sub(r'<[^>]+>', '', text)
RECURSIVE StripTags(_)
StripTags(s) ==
  IF \A i \in 1..Len(s) : s[i] # "<" THEN s
  ELSE LET i == CHOOSE k \in 1..Len(s) :
                    s[k] = "<" /\ \A m \in 1..(k - 1) : s[m] # "<"
           rest == Drop(s, i - 1)
       IN IF \E j \in 2..Len(rest) : rest[j] = ">"
            THEN LET j == CHOOSE k \in 2..Len(rest) :
                            rest[k] = ">" /\ \A m \in 2..(k - 1) : rest[m] # ">"
                 IN IF j >= 3 THEN SubSeq(s, 1, i - 1) \o StripTags(Drop(rest, j))
                    ELSE SubSeq(s, 1, i) \o StripTags(Tail(rest))
            ELSE s

\* re.sub(r'\s+', ' ', text)
RECURSIVE CollapseSpaces(_)
CollapseSpaces(s) ==
  IF \A i \in 1..Len(s) : ~IsSpace(s[i]) THEN s
  ELSE LET i == CHOOSE k \in 1..Len(s) :
                    IsSpace(s[k]) /\ \A m \in 1..(k - 1) : ~IsSpace(s[m])
       IN SubSeq(s, 1, i - 1) \o <<" ">> \o CollapseSpaces(LStrip(Drop(s, i - 1)))

\* re.sub(r'[\x00-\x08\x0B\x0C\x0E-\x1F\x7F]', '', text)
StripControl(s) == SelectSeq(s, LAMBDA c : ~IsControl(c))

\* _validate_length leaves text[:max_length] in sanitized_text
Truncate(text) ==
  IF Len(text) > max_length THEN SubSeq(text, 1, max_length) ELSE text

\* mutation: the tags are left in the text
SanitizeTextKeepingTags(text) == StripControl(Strip(CollapseSpaces(text)))

\* _sanitize_text
SanitizeText(text) == StripControl(Strip(CollapseSpaces(StripTags(text))))

\* re.search(r"eval\(.*\)", s)
MatchesEval(s) ==
  \E i \in 1..Len(s) :
    /\ StartsWithAt(s, i, <<"e","v","a","l","(">>)
    /\ \E j \in (i + 5)..Len(s) : s[j] = ")"

\* re.search(r"<script.*?>.*?</script>", s)
MatchesScript(s) ==
  \E i \in 1..Len(s) :
    /\ StartsWithAt(s, i, <<"<","s","c","r","i","p","t">>)
    /\ \E j \in (i + 7)..Len(s) :
         /\ s[j] = ">"
         /\ \E k \in (j + 1)..Len(s) :
              StartsWithAt(s, k, <<"<","/","s","c","r","i","p","t",">">>)

\* re.search(word + r"\s*=", s)
MatchesHandler(s, word) ==
  \E i \in 1..Len(s) :
    /\ StartsWithAt(s, i, word)
    /\ \E j \in (i + Len(word))..Len(s) :
         /\ s[j] = "="
         /\ \A m \in (i + Len(word))..(j - 1) : IsSpace(s[m])

\* _check_injection: any banned pattern, re.IGNORECASE
CheckInjection(s) ==
  LET t == Lower(s)
  IN \/ MatchesScript(t)
     \/ MatchesEval(t)
     \/ Contains(t, <<"j","a","v","a","s","c","r","i","p","t",":">>)
     \/ MatchesHandler(t, <<"o","n","l","o","a","d">>)
     \/ MatchesHandler(t, <<"o","n","e","r","r","o","r">>)

\* re.search(r'(.)\1{n-1,}', s): some character n or more times in a row
HasRun(s, n) ==
  \E i \in 1..(Len(s) - n + 1) :
    /\ s[i] # "\n"
    /\ \A k \in 1..(n - 1) : s[i + k] = s[i]

\* re.search(r'[set]{n,}', s): n or more characters of the set in a row
HasRunOf(s, set, n) ==
  \E i \in 1..(Len(s) - n + 1) : \A k \in 0..(n - 1) : s[i + k] \in set

\* s.count(ch)
Count(s, ch) == Len(SelectSeq(s, LAMBDA c : c = ch))

\* s.split()
RECURSIVE Words(_)
Words(s) ==
  LET t == LStrip(s)
  IN IF t = <<>> THEN <<>>
     ELSE LET n == IF \E j \in 1..Len(t) : IsSpace(t[j])
                     THEN (CHOOSE j \in 1..Len(t) :
                             IsSpace(t[j]) /\ \A m \in 1..(j - 1) : ~IsSpace(t[m])) - 1
                     ELSE Len(t)
          IN <<SubSeq(t, 1, n)>> \o Words(Drop(t, n))

\* str.islower
IsLower(s) ==
  /\ \E i \in 1..Len(s) : IsLowerChar(s[i])
  /\ \A i \in 1..Len(s) : ~IsUpperChar(s[i])

IsCased(c) == IsUpperChar(c) \/ IsLowerChar(c)

\* str.istitle
IsTitle(s) ==
  /\ \E i \in 1..Len(s) : IsUpperChar(s[i])
  /\ \A i \in 1..Len(s) :
       /\ IsUpperChar(s[i]) => (i = 1 \/ ~IsCased(s[i - 1]))
       /\ IsLowerChar(s[i]) => (i > 1 /\ IsCased(s[i - 1]))

WarnTruncated == "Text truncated"
WarnRepeated == "Repeated characters detected - may be gibberish"
WarnUrl == "Text contains URLs"
WarnPunctuation == "Excessive punctuation"
WarnVowels == "Text may be gibberish (few vowels detected)"
WarnPatterns == "Repeated character patterns detected"
WarnSequence == "Unusual letter sequence detected"
WarnCapitalization == "Unusual capitalization patterns"

\* the warning, when the check finds something
WarnIf(found, warning) == IF found THEN <<warning>> ELSE <<>>

\* _validate_length: the warning of a truncation
LengthWarnings(text) == WarnIf(Len(text) > max_length, WarnTruncated)

\* _check_suspicious_patterns
SuspiciousWarnings(text) ==
  WarnIf(HasRun(text, 5), WarnRepeated)
    \o WarnIf(\/ Contains(text, <<"h","t","t","p",":","/","/">>)
              \/ Contains(text, <<"h","t","t","p","s",":","/","/">>)
              \/ Contains(text, <<"w","w","w",".">>), WarnUrl)
    \o WarnIf(Count(text, "!") > 5 \/ Count(text, "?") > 5, WarnPunctuation)

Vowels == {"a", "e", "i", "o", "u"}

\* the words among the first five with a character of [aeiouy]
VowelCount(words) ==
  Cardinality({i \in 1..Len(words) :
                 i <= 5 /\ \E j \in 1..Len(words[i]) : words[i][j] \in Vowels \cup {"y"}})

\* the words of more than two characters that are neither lower nor upper
MixedWords(words) ==
  SelectSeq(words, LAMBDA w : ~IsLower(w) /\ ~IsUpper(w) /\ Len(w) > 2)

\* _check_gibberish on the words of the lowercased text
GibberishOf(text, words) ==
  IF words = <<>> THEN <<>>
  ELSE WarnIf(10 * VowelCount(words) < 3 * (IF Len(words) < 5 THEN Len(words) ELSE 5),
              WarnVowels)
         \o WarnIf(HasRun(text, 4), WarnPatterns)
         \o WarnIf(\/ HasRunOf(text, LowerSet \ Vowels, 5)
                   \/ HasRunOf(text, Vowels, 4), WarnSequence)
         \o WarnIf(/\ ~IsLower(text) /\ ~IsUpper(text) /\ ~IsTitle(text)
                   /\ 2 * Len(MixedWords(words)) > Len(words), WarnCapitalization)

\* _check_gibberish
GibberishWarnings(clean) == GibberishOf(Lower(clean), Words(Lower(clean)))

\* mutation: a heuristic that finds something invalidates the result
WarnedInvalidating(r, warnings) ==
  [is_valid |-> /\ r.is_valid
                /\ SuspiciousWarnings(r.sanitized_text) = <<>>
                /\ GibberishWarnings(r.sanitized_text) = <<>>,
   sanitized_text |-> r.sanitized_text,
   errors |-> r.errors,
   warnings |-> IF r.is_valid
                  THEN warnings \o SuspiciousWarnings(r.sanitized_text)
                                \o GibberishWarnings(r.sanitized_text)
                  ELSE warnings]

\* the result with the warnings of _validate_length and, while it is valid,
\* those of _check_suspicious_patterns and _check_gibberish
Warned(r, warnings) ==
  [is_valid |-> r.is_valid, sanitized_text |-> r.sanitized_text,
   errors |-> r.errors,
   warnings |-> IF r.is_valid
                  THEN warnings \o SuspiciousWarnings(r.sanitized_text)
                                \o GibberishWarnings(r.sanitized_text)
                  ELSE warnings]

ErrEmpty == "Text cannot be empty or whitespace only"
ErrLanguage == "Unsupported language"
ErrTooShort == "Text too short"
ErrDangerous == "Potentially dangerous content detected"

\* mutation: a banned pattern is let through
InjectionCheckedAccepting(clean) ==
  [is_valid |-> TRUE, sanitized_text |-> clean, errors |-> <<>>]

\* the outcome of _check_injection on the sanitized text
InjectionChecked(clean) ==
  IF CheckInjection(clean)
    THEN [is_valid |-> FALSE, sanitized_text |-> clean, errors |-> <<ErrDangerous>>]
    ELSE [is_valid |-> TRUE, sanitized_text |-> clean, errors |-> <<>>]

\* mutation: the language is checked before the text
validate_input_language_first(text, target_lang) ==
  IF target_lang \notin supported_languages
    THEN [is_valid |-> FALSE, sanitized_text |-> text, errors |-> <<ErrLanguage>>,
          warnings |-> <<>>]
  ELSE IF text = <<>> \/ Strip(text) = <<>>
    THEN [is_valid |-> FALSE, sanitized_text |-> text, errors |-> <<ErrEmpty>>,
          warnings |-> <<>>]
  ELSE Warned(InjectionChecked(SanitizeText(Truncate(text))), LengthWarnings(text))

\* validate_input: the checks run in order, each only while is_valid holds
validate_input(text, target_lang) ==
  IF text = <<>> \/ Strip(text) = <<>>
    THEN [is_valid |-> FALSE, sanitized_text |-> text, errors |-> <<ErrEmpty>>,
          warnings |-> <<>>]
  ELSE IF target_lang \notin supported_languages
    THEN [is_valid |-> FALSE, sanitized_text |-> text, errors |-> <<ErrLanguage>>,
          warnings |-> <<>>]
  ELSE IF Len(text) < min_length
    THEN [is_valid |-> FALSE, sanitized_text |-> Truncate(text),
          errors |-> <<ErrTooShort>>, warnings |-> LengthWarnings(text)]
  ELSE Warned(InjectionChecked(SanitizeText(Truncate(text))), LengthWarnings(text))

(***************************************************************************)
(* TranslationValidator.validate_output.  NoScore marks the dict of the    *)
(* empty-translation branch, which has no "score" key.                     *)
(***************************************************************************)
NoScore == 0 - 1

placeholders ==
  { <<"[","U","N","K","]">>, <<"[","M","A","S","K","]">>, <<"?","?","?">>,
    <<"<",".",".",".",">">>, <<"#","#">> }

\* a scorer whose length-ratio rules include their boundaries
validate_output_inclusive(source_text, translated_text, source_type) ==
  IF ~Truthy(translated_text)
    THEN [quality |-> "error", score |-> NoScore]
  ELSE IF source_type = "api" /\ Lower(translated_text) = Lower(source_text)
    THEN [quality |-> "low", score |-> 20]
  ELSE
    LET short == Len(source_text) > 0 /\ 10 * Len(translated_text) <= 3 * Len(source_text)
        long == Len(source_text) > 0 /\ Len(translated_text) >= 3 * Len(source_text)
        q1 == IF short \/ long THEN "low" ELSE "medium"
        s1 == IF short THEN 30 ELSE IF long THEN 40 ELSE 80
        q2 == IF source_type = "dictionary" THEN "high" ELSE q1
        s2 == IF source_type = "dictionary" THEN 95 ELSE s1
    IN IF \E ph \in placeholders : Contains(translated_text, ph)
         THEN [quality |-> "low", score |-> 50]
         ELSE [quality |-> q2, score |-> s2]

validate_output(source_text, translated_text, source_type) ==
  IF ~Truthy(translated_text)
    THEN [quality |-> "error", score |-> NoScore]
  ELSE IF source_type = "api" /\ Lower(translated_text) = Lower(source_text)
    THEN [quality |-> "low", score |-> 20]
  ELSE
    LET short == Len(source_text) > 0 /\ 10 * Len(translated_text) < 3 * Len(source_text)
        long == Len(source_text) > 0 /\ Len(translated_text) > 3 * Len(source_text)
        q1 == IF short \/ long THEN "low" ELSE "medium"
        s1 == IF short THEN 30 ELSE IF long THEN 40 ELSE 80
        q2 == IF source_type = "dictionary" THEN "high" ELSE q1
        s2 == IF source_type = "dictionary" THEN 95 ELSE s1
    IN IF \E ph \in placeholders : Contains(translated_text, ph)
         THEN [quality |-> "low", score |-> 50]
         ELSE [quality |-> q2, score |-> s2]

(***************************************************************************)
(* Program constants and inputs                                            *)
(***************************************************************************)
\* the source_type values translate passes to validate_output
SourceTypes == {"dictionary", "memory", "api", "none"}

Repeat(ch, n) == [i \in 1..n |-> ch]

\* the texts the scorer is run on: sources of length 0, 1, 2, 4 and 10,
\* candidates on both sides of the ratios 0.3 and 3.0, in both cases, with
\* and without each placeholder marker
ScorerSources ==
  { <<>>, <<"a">>, <<"h","i">>, Repeat("a", 4), Repeat("a", 10),
    <<"a","#","#">>, <<"?","?","?">> }

ScorerCandidates ==
  { <<>>, <<"a">>, <<"A">>, Repeat("a", 2), Repeat("a", 3), Repeat("a", 4),
    Repeat("A", 4), Repeat("a", 10), <<"H","I">>, <<"y","e","b","o">>,
    <<"A","#","#">>, <<"#">>, <<"?","?">> } \cup placeholders

Yebo == <<"y","e","b","o">>

\* what the external provider call yields for `text`
ProviderOutcomes == {"failure", "empty", "same", "upper", "genuine"}

DEFAULT_SESSION_ID == "default"
\* the capacity when the environment does not set MAX_SESSIONS, and the
\* capacities explored
DefaultMaxSessions == 3

MaxSessionsValues == 1..DefaultMaxSessions

SessionIds == {DEFAULT_SESSION_ID, "s1", "s2", "s3"}

Hi == <<"h","i">>
Ho == <<"h","o">>

\* the records stored when the memory is exercised on its own: two inputs,
\* two languages, two sessions, each session with its own output
MemoryInputs == {Hi, Ho}

MemoryLangs == {"zu", "xh"}

MemorySessions == {"s1", "s2"}

MemoryLimits == {1, 2}

\* the outcomes of a store: both adds done, the first add raising, the
\* second add raising after the first was done
StoreOutcomes == {"ok", "fail_primary", "fail_secondary"}

\* the target_lang of a query: not supplied, or one of the stored languages
QueryLangs == {"", "zu"}

OutputFor(session_id) ==
  IF session_id = "s1" THEN Yebo ELSE <<"s","a","w","u">>

\* the opening tags, the bodies and the closing tag of the texts of the form
\* <script ...>body</script>: bodies that are empty, plain, with whitespace
\* to normalise, with angle brackets, with control characters, and with
\* other banned patterns
ScriptOpens ==
  { <<"<","s","c","r","i","p","t",">">>,
    <<"<","s","c","r","i","p","t"," ","x",">">> }

ScriptBodies ==
  { <<>>,
    <<"x">>,
    <<"h","i"," ","h","o">>,
    <<" ","x"," ">>,
    <<"x"," "," ","y">>,
    <<"a","<","b">>,
    <<"a",">","b">>,
    <<"<",">">>,
    <<"a","<","b",">","c">>,
    <<"e","v","a","l","(","x",")">>,
    <<"e","v","^G","a","l","(","x",")">>,
    <<"j","a","v","a","s","c","r","i","p","t",":","x">>,
    <<"h","i","^G">> }

ScriptClose == <<"<","/","s","c","r","i","p","t",">">>

ScriptText(open, body) == open \o body \o ScriptClose

ScriptTexts ==
  {ScriptText(open, body) : open \in ScriptOpens, body \in ScriptBodies}

\* texts close to that form: a bracket pair in front, no closing bracket, a
\* doubled bracket, capitals, a space in the closing tag, an opening tag only
ScriptLike ==
  { <<"<",">","<","s","c","r","i","p","t",">","x","<","/","s","c","r","i","p","t",">">>,
    <<"<","s","c","r","i","p","t",">","x","<","/","s","c","r","i","p","t">>,
    <<"<","<","s","c","r","i","p","t",">","x","<","/","s","c","r","i","p","t",">">>,
    <<"<","S","C","R","I","P","T",">","x","<","/","S","C","R","I","P","T",">">>,
    <<"<","s","c","r","i","p","t"," ",">","x","<","/","s","c","r","i","p","t"," ",">">>,
    <<"x","<","s","c","r","i","p","t",">">>,
    <<"<","s","c","r","i","p","t","<",">","x","<","/","s","c","r","i","p","t",">">> }

\* the texts validate_input is run on: empty and blank, plain, with tags,
\* with each injection pattern, with what each heuristic looks for on both
\* sides of its threshold, longer than max_length, and of the script form
ValidatorTexts ==
  { <<>>,
    <<" ">>,
    <<"h","i">>,
    <<"H","i">>,
    <<"h","i"," ","h","o">>,
    <<"e","v","a","l","(","x",")">>,
    <<"<","b",">">>,
    <<"<","b",">","h","i","<","/","b",">">>,
    <<"<","s","c","r","i","p","t",">","x","<","/","s","c","r","i","p","t",">">>,
    <<"e","v","<","b",">","a","l","(","x",")">>,
    <<"E","V","A","L","(","x",")">>,
    <<"j","a","v","a","s","c","r","i","p","t",":","x">>,
    <<"o","n","l","o","a","d"," ","=","x">>,
    <<"o","n","e","r","r","o","r","=","x">>,
    <<"a","a","a","a","a">>,
    <<"a","a","a","a">>,
    <<"e","v","a","l","(","a","a","a","a","a",")">>,
    <<"w","w","w",".","h","i">>,
    <<"h","t","t","p",":","/","/","h","i">>,
    <<"h","t","t","p","s",":","/","/","h","i">>,
    <<"h","i","!","!","!","!","!","!">>,
    <<"h","i","!","!","!","!","!">>,
    <<"h","i","?","?","?","?","?","?">>,
    <<"b","c","d">>,
    <<"b","c","d","f","g">>,
    <<"b","c","d","f"," ","a"," ","e"," ","i">>,
    <<"a","e","i","o">>,
    <<"1","2","3","4">>,
    <<"1","2">>,
    <<"c","M","e">>,
    <<"H","i"," ","H","o">>,
    <<"b"," ","c"," ","d"," ","e">>,
    <<"h","i","\t","h","o">>,
    <<" ","h","i">>,
    <<"y","y","y","y","y"," ","r","h","y","t","h","m">>,
    <<"h","i","^G","h","o">>,
    <<"<",">">>,
    <<"a"," ","b"," ","c"," ","d"," ","e"," ","f">>,
    Repeat("a", max_length + 1),
    <<"e","v","a","l","(","x",")">> \o Repeat("a", max_length + 1 - 7),
    <<"h","i"," ">> \o Repeat("b", max_length + 1 - 3),
    Repeat("a", max_length - 1) \o <<"e","v","a","l","(","x",")">> }
    \cup ScriptTexts \cup ScriptLike

\* a supported language, an unsupported one, another supported one
ValidatorLangs == {"zu", "fr", "xh"}

Request(text, target_lang) == [text |-> text, target_lang |-> target_lang]

\* the requests: empty, blank, unsupported language, dangerous content,
\* tags only, dictionary terms in three capitalizations, other texts
Requests ==
  { Request(<<>>, "zu"), Request(<<" ">>, "zu"), Request(Hi, "fr"),
    Request(<<"e","v","a","l","(","x",")">>, "zu"),
    Request(<<"e","v","a","l","(","a","a","a","a","a",")">>, "zu"),
    Request(<<"j","a","v","a","s","c","r","i","p","t",":","x">>, "zu"),
    Request(<<"o","n","e","r","r","o","r","=","x">>, "zu"),
    Request(<<"<","b",">">>, "zu"),
    Request(<<"d","r">>, "zu"), Request(<<"D","r">>, "zu"), Request(<<"D","R">>, "zu"),
    Request(Hi, "zu"), Request(Ho, "zu"), Request(Hi, "xh") }

\* the requests sent to POST /translate: an invalid and a valid one
ApiRequests == {Request(<<>>, "zu"), Request(Hi, "zu")}

\* the outcomes of the external calls of one resolution: the store is only
\* reached with a genuine provider answer
Environment(query_raises, api_outcome, store_outcome) ==
  [query_raises |-> query_raises, api_outcome |-> api_outcome,
   store_outcome |-> store_outcome]

Environments ==
  { Environment(q, a, "ok") : q \in BOOLEAN, a \in ProviderOutcomes }
    \cup { Environment(q, "genuine", "fail_primary") : q \in BOOLEAN }
    \cup { Environment(FALSE, "genuine", "fail_secondary") }

\* the environment of a resolution that makes no external call
NoCalls == Environment(FALSE, "failure", "ok")

TermKeys == {Hi}

TermValues == {Yebo, <<"#","#">>, <<>>}

\* the keys added and the texts looked up when the dictionary is exercised
\* on its own: one term in three capitalizations, and padded; a seeded term
\* with a period, and after "the ", which only a later variant matches
TheDr == <<"t","h","e"," ","d","r">>

\* "a and b" is the third variant of "a&b", "a b" the fifth of "a  b"
AandB == <<"a"," ","a","n","d"," ","b">>

AB == <<"a"," ","b">>

AddedKeys == {Hi, <<"H","i">>, <<"H","I">>, <<" ","h","i">>, TheDr, AandB, AB}

LookupTexts ==
  { Hi, <<"H","i">>, <<"H","I">>, <<" ","h","i">>,
    <<"D","r",".">>, <<"D","R">>, TheDr, <<"T","h","e"," ","d","r">>,
    <<"h","o">>, <<"A","&","b">>, <<"a"," "," ","b">> }

(***************************************************************************)
(* The validator is a pure function of the request: it is tabulated once   *)
(* over the requests, and so are the variants of the sanitized texts.      *)
(***************************************************************************)
ValidationTable == [rq \in Requests |-> validate_input(rq.text, rq.target_lang)]

\* and over the texts and languages the validator is run on by itself
ValidatorTable ==
  [rq \in {Request(text, target_lang) :
             text \in ValidatorTexts, target_lang \in ValidatorLangs}
     |-> validate_input(rq.text, rq.target_lang)]

SanitizedTexts == {ValidationTable[rq].sanitized_text : rq \in Requests}

(***************************************************************************)
(* DictionaryDatabase: the collection is a sequence of entries in          *)
(* insertion order.                                                        *)
(***************************************************************************)
dictionary_terms ==
  << [english_original |-> <<"d","r">>, zulu |-> <<"u","d","k","t">>],
     [english_original |-> <<"d","r",".">>, zulu |-> <<"u","d","k","t">>],
     [english_original |-> <<"t","e","a">>, zulu |-> <<"i","t","i","y","e">>] >>

\* the variants appended for the ones that start with "the "
WithoutThe(variants) ==
  LET withThe == SelectSeq(variants, LAMBDA v : StartsWithAt(v, 1, <<"t","h","e"," ">>))
  IN variants \o [i \in 1..Len(withThe) |-> Strip(Drop(withThe[i], 4))]

\* mutation: the variants are probed last first
VariantsFromLastFirst(text_lower) ==
  LET variants ==
        WithoutThe(<< text_lower,
                      Replace(text_lower, <<"&">>, <<"a","n","d">>),
                      Replace(text_lower, <<"&">>, <<" ","a","n","d"," ">>),
                      Replace(text_lower, <<".">>, <<>>),
                      Replace(text_lower, <<" "," ">>, <<" ">>) >>)
  IN [i \in 1..Len(variants) |-> variants[Len(variants) + 1 - i]]

\* the variants of text_lower, in probing order
VariantsFrom(text_lower) ==
  WithoutThe(<< text_lower,
                Replace(text_lower, <<"&">>, <<"a","n","d">>),
                Replace(text_lower, <<"&">>, <<" ","a","n","d"," ">>),
                Replace(text_lower, <<".">>, <<>>),
                Replace(text_lower, <<" "," ">>, <<" ">>) >>)

\* the variants list of get_exact_match
Variants(text) == VariantsFrom(Strip(Lower(text)))

VariantsTable == [t \in SanitizedTexts \cup LookupTexts |-> Variants(t)]

VariantsOf(text) == VariantsTable[text]

\* collection.get(where={"english_original": variant}, limit=1)
CollectionGet(dict, variant) ==
  SelectSeq(dict, LAMBDA e : e.english_original = variant)

\* the loop over the variants; an IndexError on an empty stored value is
\* caught and the loop continues with the next variant
RECURSIVE ProbeVariants(_, _, _)
ProbeVariants(dict, text, vs) ==
  IF vs = <<>> THEN None
  ELSE LET results == CollectionGet(dict, Head(vs))
       IN IF results = <<>> THEN ProbeVariants(dict, text, Tail(vs))
          ELSE LET zulu == results[1].zulu
               IN IF IsUpper(text) THEN Upper(zulu)
                  ELSE IF IsUpperChar(text[1])
                    THEN IF zulu = <<>> THEN ProbeVariants(dict, text, Tail(vs))
                         ELSE <<UpperChar(zulu[1])>> \o Tail(zulu)
                  ELSE zulu

\* mutation: the capitalization of the input is not applied
get_exact_match_lowercase(dict, text) ==
  IF text = <<>> THEN None ELSE ProbeVariants(dict, Lower(text), VariantsOf(text))

get_exact_match(dict, text) ==
  IF text = <<>> THEN None
  ELSE ProbeVariants(dict, text, VariantsOf(text))

\* a lookup that capitalizes from the lowercased text
get_exact_match_when_lowercase(dict, text, failing) ==
  IF text = <<>> THEN None
  ELSE ProbeVariants(dict, Lower(text),
                     SelectSeq(VariantsOf(text), LAMBDA v : v \notin failing))

\* get_exact_match when collection.get raises for the variants in
\* `failing`: the exception is caught and the loop continues
get_exact_match_when(dict, text, failing) ==
  IF text = <<>> THEN None
  ELSE ProbeVariants(dict, text,
                     SelectSeq(VariantsOf(text), LAMBDA v : v \notin failing))

(***************************************************************************)
(* TranslationMemory: the primary collection `translations` and the        *)
(* secondary collection `session_docs`, both in insertion order.           *)
(***************************************************************************)
\* the distance of the embeddings of two texts, in hundredths: 0 for the same
\* text; "hi" and "ho" are just inside the acceptance threshold (similarity
\* 0.71), every other two texts exactly on it (similarity 0.70)
Distance(a, b) ==
  IF a = b THEN 0
  ELSE IF (a = Hi /\ b = Ho) \/ (a = Ho /\ b = Hi) THEN 29
  ELSE 30

\* the k nearest entries, nearest first, ties in insertion order
RECURSIVE Nearest(_, _, _)
Nearest(query_text, recs, k) ==
  IF k = 0 \/ recs = <<>> THEN <<>>
  ELSE LET d(i) == Distance(query_text, recs[i].input)
           best == CHOOSE i \in 1..Len(recs) :
                     \A j \in 1..Len(recs) : d(i) < d(j) \/ (d(i) = d(j) /\ i <= j)
           rest == [j \in 1..(Len(recs) - 1) |-> IF j < best THEN recs[j] ELSE recs[j + 1]]
       IN <<recs[best]>> \o Nearest(query_text, rest, k - 1)

\* translation_collection.query(query_texts, where, n_results)
CollectionQuery(recs, query_text, field, value, n_results) ==
  LET matching == IF field = "none" THEN recs
                  ELSE SelectSeq(recs, LAMBDA r : r[field] = value)
  IN Nearest(query_text, matching, n_results)

\* the manual filter of find_similar and the similarity of each result
FilteredResults(results, query_text, target_lang, session_id, limit) ==
  LET kept == SelectSeq(results, LAMBDA r :
                /\ (target_lang # "" => r.target_lang = target_lang)
                /\ (session_id # "" => r.session_id = session_id))
      filtered_results ==
        [i \in 1..Len(kept) |->
           [input |-> kept[i].input, output |-> kept[i].output,
            target_lang |-> kept[i].target_lang,
            similarity |-> 100 - Distance(query_text, kept[i].input)]]
  IN SubSeq(filtered_results, 1, IF Len(filtered_results) < limit
                                   THEN Len(filtered_results) ELSE limit)

\* a choice of the index filter that prefers the session
where_filter_session_first(target_lang, session_id) ==
  IF session_id # "" THEN [field |-> "session_id", value |-> session_id]
  ELSE IF target_lang # "" THEN [field |-> "target_lang", value |-> target_lang]
  ELSE [field |-> "none", value |-> ""]

\* the one condition passed to the index: target_lang if given, else
\* session_id if given, else none
where_filter(target_lang, session_id) ==
  IF target_lang # "" THEN [field |-> "target_lang", value |-> target_lang]
  ELSE IF session_id # "" THEN [field |-> "session_id", value |-> session_id]
  ELSE [field |-> "none", value |-> ""]

\* find_similar; `raises` is the index query raising, which returns []
find_similar(recs, query_text, target_lang, session_id, limit, raises) ==
  IF raises THEN <<>>
  ELSE FilteredResults(
         CollectionQuery(recs, query_text,
                         where_filter(target_lang, session_id).field,
                         where_filter(target_lang, session_id).value,
                         limit),
         query_text, target_lang, session_id, limit)

\* mutation: the record is written with input and output exchanged
store_translation_swapped(recs, docs, input_text, output_text, target_lang, session_id, outcome) ==
  [translations |-> Append(recs, [input |-> output_text, output |-> input_text,
                                  target_lang |-> target_lang, session_id |-> session_id]),
   session_docs |-> docs]

\* mutation: nothing is written
store_translation_dropped(recs, docs, input_text, output_text, target_lang, session_id, outcome) ==
  [translations |-> recs, session_docs |-> docs]

\* store_translation; outcome "ok", or an add raising: "fail_primary"
\* before anything is written, "fail_secondary" after the primary add
store_translation(recs, docs, input_text, output_text, target_lang, session_id, outcome) ==
  LET rec == [input |-> input_text, output |-> output_text,
              target_lang |-> target_lang, session_id |-> session_id]
      doc == [session_id |-> session_id, input |-> input_text, output |-> output_text]
  IN [translations |-> IF outcome = "fail_primary" THEN recs ELSE Append(recs, rec),
      session_docs |-> IF outcome = "ok" THEN Append(docs, doc) ELSE docs]

\* TranslationMemory.clear_session: the delete is issued on the secondary
\* collection only; an exception of it is caught and printed
memory_clear_session(recs, docs, session_id, raises) ==
  [translations |-> recs,
   session_docs |-> IF raises THEN docs
                    ELSE SelectSeq(docs, LAMBDA d : d.session_id # session_id)]

(***************************************************************************)
(* validate_output is a pure function: it is tabulated once over the texts *)
(* the pipeline can pass to it.                                            *)
(***************************************************************************)
Capitalized(z) == IF z = <<>> THEN z ELSE <<UpperChar(z[1])>> \o Tail(z)

StoredValues == {dictionary_terms[i].zulu : i \in 1..Len(dictionary_terms)} \cup TermValues

TranslatedTexts ==
  {Yebo} \cup SanitizedTexts
    \cup StoredValues \cup {Upper(z) : z \in StoredValues}
    \cup {Capitalized(z) : z \in StoredValues}

ScoreTable ==
  [a \in SanitizedTexts \X TranslatedTexts \X {"dictionary", "memory", "api", "none"}
     |-> validate_output(a[1], a[2], a[3])]

Score(source_text, translated_text, source_type) ==
  ScoreTable[<<source_text, translated_text, source_type>>]

(***************************************************************************)
(* AgenticTranslator                                                       *)
(***************************************************************************)
\* _translate_api: the value returned (the caller counts the request)
translate_api(text, outcome) ==
  CASE outcome = "failure" -> None
    [] outcome = "empty" -> <<>>
    [] outcome = "same" -> text
    [] outcome = "upper" -> Upper(text)
    [] OTHER -> Yebo

NoResult ==
  [error |-> FALSE, errors |-> <<>>, translation |-> None, source |-> "",
   quality |-> "", confidence |-> NoScore]

\* mutation: the error result loses its errors
ErrorResultWithoutErrors(errors) == [NoResult EXCEPT !.error = TRUE]

\* the result returned on a validation failure
ErrorResult(errors) == [NoResult EXCEPT !.error = TRUE, !.errors = errors]

\* what one call of translate leaves behind: the stages it entered, what it
\* returned or raised, and the state it wrote
Outcome(c, raised, result) ==
  [stages |-> c.stages, raised |-> raised, result |-> result,
   request_count |-> c.request_count, translations |-> c.recs,
   session_docs |-> c.docs, similarity |-> c.similarity, query |-> c.query,
   api |-> c.api, store |-> c.store, paused |-> c.paused]

\* the returned dict; reading a missing "score" raises KeyError instead
Returned(c, translation, source, output_validation) ==
  IF output_validation.score = NoScore
    THEN Outcome(c, "KeyError", NoResult)
    ELSE Outcome(c, "", [NoResult EXCEPT !.translation = translation,
                                       !.source = source,
                                       !.quality = output_validation.quality,
                                       !.confidence = output_validation.score])

\* 5. Fallback: the sanitized text itself
PassthroughFallback(c) ==
  Returned([c EXCEPT !.stages = Append(@, "passthrough")], c.cleaned_text, "none",
           Score(c.cleaned_text, c.cleaned_text, "none"))

\* is the provider's answer a translation: non-empty and not the input again
Genuine(api_translation, cleaned_text) ==
  Truthy(api_translation) /\ Lower(api_translation) # Lower(cleaned_text)

\* the collections after store_translation, whose exception is caught
StoredAs(c, stored) ==
  [c EXCEPT !.stages = Append(@, "store"), !.recs = stored.translations,
            !.docs = stored.session_docs, !.store = c.store_outcome]

\* a genuine answer is stored when the translator has a memory
Stored(c) ==
  IF c.tr.memory
    THEN StoredAs(c, store_translation(c.recs, c.docs, c.cleaned_text, c.api,
                                       c.target_lang, c.tr.session_id, c.store_outcome))
    ELSE c

\* the decision on the provider's answer c.api
ProviderDecision(c) ==
  IF Genuine(c.api, c.cleaned_text)
    THEN Returned(Stored(c), c.api, "api", Score(c.cleaned_text, c.api, "api"))
    ELSE PassthroughFallback(c)

\* mutation: the pause is inserted on every call
PausesAlways(request_count) == TRUE

\* the rate limiting of _translate_api, on the count the call has reached
Pauses(request_count) == request_count % 5 = 0

\* 4. Try API: _translate_api counts the request and pauses
ProviderFallback(c) ==
  ProviderDecision([c EXCEPT !.stages = Append(@, "provider"),
                             !.request_count = @ + 1,
                             !.paused = Pauses(c.request_count + 1),
                             !.api = translate_api(c.cleaned_text, c.api_outcome)])

\* mutation: a best match on the threshold is accepted
MemoryAcceptsOnThreshold(similarity) == similarity >= 70

\* the acceptance test of the best match
MemoryAccepts(similarity) == similarity > 70

\* mutation: a cache hit carries the scorer's score as its confidence
MemoryDecisionScored(c) ==
  IF c.memory_results # <<>> /\ MemoryAccepts(c.similarity)
    THEN Returned(c, c.memory_results[1].output, "memory",
                  Score(c.cleaned_text, c.memory_results[1].output, "memory"))
    ELSE ProviderFallback(c)

\* the decision on the results c.memory_results of the query
MemoryDecision(c) ==
  IF c.memory_results # <<>> /\ MemoryAccepts(c.similarity)
    THEN Returned(c, c.memory_results[1].output, "memory",
                  [quality |-> Score(c.cleaned_text, c.memory_results[1].output,
                                     "memory").quality,
                   score |-> c.similarity])
    ELSE ProviderFallback(c)

\* the results of find_similar, a raising query caught
Queried(c, memory_results) ==
  [c EXCEPT !.stages = Append(@, "memory"),
            !.memory_results = memory_results,
            !.similarity = IF memory_results # <<>> THEN memory_results[1].similarity
                           ELSE NoScore,
            !.query = IF c.query_raises THEN "raised" ELSE "ok"]

\* mutation: the cache is asked for the translator's own session only
MemoryLookupOwnSession(c) ==
  MemoryDecision(IF c.tr.memory
                   THEN Queried(c, find_similar(c.recs, c.cleaned_text, "",
                                                c.tr.session_id, 3, c.query_raises))
                   ELSE c)

\* 3. Check memory, when the translator has one
MemoryLookup(c) ==
  MemoryDecision(IF c.tr.memory
                   THEN Queried(c, find_similar(c.recs, c.cleaned_text, c.target_lang,
                                                "", 3, c.query_raises))
                   ELSE c)

\* the decision on the dictionary's answer c.dict_translation
DictionaryDecision(c) ==
  IF Truthy(c.dict_translation)
    THEN Returned(c, c.dict_translation, "dictionary",
                  Score(c.cleaned_text, c.dict_translation, "dictionary"))
    ELSE MemoryLookup(c)

\* mutation: the dictionary stage is skipped
DictionaryLookupSkipped(c) == MemoryLookup(c)

\* 2. Check dictionary first
DictionaryLookup(c) ==
  DictionaryDecision([c EXCEPT !.stages = Append(@, "dictionary"),
                               !.dict_translation =
                                  get_exact_match(c.dict, c.cleaned_text)])

\* 1. Validate input
Validating(c, validation_result) ==
  IF ~validation_result.is_valid
    THEN Outcome(c, "", ErrorResult(validation_result.errors))
    ELSE DictionaryLookup([c EXCEPT !.cleaned_text = validation_result.sanitized_text])

\* AgenticTranslator.translate on the translator `tr`, with the outcomes of
\* its three external calls: the index query raising, the provider's answer
\* and the outcome of the store
translate(dict, recs, docs, tr, text, target_lang, query_raises, api_outcome, store_outcome) ==
  Validating([dict |-> dict, recs |-> recs, docs |-> docs, tr |-> tr,
              cleaned_text |-> text, target_lang |-> target_lang,
              query_raises |-> query_raises, api_outcome |-> api_outcome,
              store_outcome |-> store_outcome,
              stages |-> <<"validate">>, request_count |-> tr.request_count,
              dict_translation |-> None, memory_results |-> <<>>,
              similarity |-> NoScore, query |-> "none", api |-> None,
              store |-> "none", paused |-> FALSE],
             ValidationTable[Request(text, target_lang)])

(***************************************************************************)
(* Session registry of api/main.py: an OrderedDict, least recently used    *)
(* first.                                                                  *)
(***************************************************************************)
\* mutation: a translator that starts with a request already counted
create_translator_counted(session_id, memory_ok) ==
  [session_id |-> session_id, request_count |-> 1, memory |-> memory_ok]

\* create_translator: request_count 0; memory is FALSE when the
\* construction of TranslationMemory raised
create_translator(session_id, memory_ok) ==
  [session_id |-> session_id, request_count |-> 0, memory |-> memory_ok]

InRegistry(sess, session_id) == \E i \in 1..Len(sess) : sess[i].session_id = session_id

IndexOf(sess, session_id) == CHOOSE i \in 1..Len(sess) : sess[i].session_id = session_id

RemoveAt(sess, i) == [j \in 1..(Len(sess) - 1) |-> IF j < i THEN sess[j] ELSE sess[j + 1]]

\* an eviction that pops the first key, whichever it is
EvictFirst(sess) ==
  IF Len(sess) > 0 THEN RemoveAt(sess, 1) ELSE sess

\* the eviction loop: pop the first key that is not the default
EvictOne(sess) ==
  IF \E i \in 1..Len(sess) : sess[i].session_id # DEFAULT_SESSION_ID
    THEN RemoveAt(sess, CHOOSE i \in 1..Len(sess) :
                    /\ sess[i].session_id # DEFAULT_SESSION_ID
                    /\ \A j \in 1..(i - 1) : sess[j].session_id = DEFAULT_SESSION_ID)
    ELSE sess

\* a registry that leaves an entry it finds where it is
get_or_create_session_fifo(sess, session_id, memory_ok) ==
  IF InRegistry(sess, session_id)
    THEN sess
    ELSE Append(IF Len(sess) >= MAX_SESSIONS THEN EvictOne(sess) ELSE sess,
                create_translator(session_id, memory_ok))

get_or_create_session(sess, session_id, memory_ok) ==
  IF InRegistry(sess, session_id)
    THEN LET i == IndexOf(sess, session_id)
         IN Append(RemoveAt(sess, i), sess[i])
    ELSE Append(IF Len(sess) >= MAX_SESSIONS THEN EvictOne(sess) ELSE sess,
                create_translator(session_id, memory_ok))

\* GET /health and GET /stats: the sum of request_count over the registry
RECURSIVE total_translations(_)
total_translations(sess) ==
  IF sess = <<>> THEN 0
  ELSE sess[1].request_count + total_translations(Tail(sess))

\* GET /sessions: the ids of the registry, in its order
list_sessions(sess) == [i \in 1..Len(sess) |-> sess[i].session_id]

\* the order of last access after a call of _get_or_create_session on
\* session_id
Access(order, session_id) ==
  Append(SelectSeq(order, LAMBDA k : k # session_id), session_id)

(***************************************************************************)
(* State machine                                                           *)
(***************************************************************************)
NoOp ==
  [op |-> "startup", session_id |-> DEFAULT_SESSION_ID, text |-> <<>>,
   target_lang |-> "", stages |-> <<>>, raised |-> "", result |-> NoResult,
   similarity |-> NoScore, query |-> "none", api |-> None, store |-> "none",
   memory |-> FALSE, use_memory |-> FALSE, status |-> 0, paused |-> FALSE,
   pool |-> <<>>, message |-> "",
   validation |-> [is_valid |-> TRUE, sanitized_text |-> <<>>, errors |-> <<>>,
                   warnings |-> <<>>],
   candidate |-> None, source_type |-> "", failing |-> {},
   memory_results |-> <<>>, limit |-> 0,
   where |-> [field |-> "none", value |-> ""],
   output_validation |-> [quality |-> "", score |-> NoScore],
   before |-> [translations |-> <<>>, session_docs |-> <<>>, request_count |-> 0]]

\* the threads that call TranslationLogger.log on the one logger of the API
LogThreads == {"t1", "t2", "t3"}

\* json.dumps(entry) + "\n" reaches the file in two writes: the buffered text
\* of the record and, at the latest when the file is closed, its end with the
\* newline
Chunk(t, part) == [by |-> t, part |-> part]

\* TranslationLogger.__init__: the lock is free, nothing is logged yet
NewLogger ==
  [_lock |-> "", log_file |-> <<>>, pc |-> [t \in LogThreads |-> "idle"]]

\* module import and startup_event: stores opened, default session warmed up
\* the requests served concurrently; a request that has not arrived
HandlerIds == {"h1", "h2", "h3"}

Idle ==
  [pc |-> "idle", session_id |-> "", returned |-> "", epoch |-> 0,
   count |-> 0, found |-> <<>>, expect |-> <<>>]

\* no translator registered for an id; `epoch` counts the evictions of the id
NotCreated == [by |-> "none", made |-> 0, epoch |-> 0]

Started(capacity) ==
  /\ \E memory_ok \in BOOLEAN :
       sessions = <<create_translator(DEFAULT_SESSION_ID, memory_ok)>>
  /\ dictionary = dictionary_terms
  /\ translations = <<>>
  /\ session_docs = <<>>
  /\ last = NoOp
  /\ MAX_SESSIONS = capacity
  /\ accessed = <<DEFAULT_SESSION_ID>>
  /\ handlers = [h \in HandlerIds |-> Idle]
  /\ creator = [k \in SessionIds |->
                  IF k = DEFAULT_SESSION_ID
                    THEN [by |-> "startup", made |-> 1, epoch |-> 0]
                  ELSE NotCreated]
  /\ logger = NewLogger

Init == Started(DefaultMaxSessions)

\* the API started with any of the capacities
InitApi == \E capacity \in MaxSessionsValues : Started(capacity)

\* the state after the call r of translate on the translator sessions[i]
ResolvedWithin(i, rq, r, max_count) ==
  /\ r.request_count <= max_count
  /\ Len(r.translations) <= MaxRecords
  /\ sessions' = [sessions EXCEPT ![i].request_count = r.request_count]
  /\ translations' = r.translations
  /\ session_docs' = r.session_docs
  /\ last' = [NoOp EXCEPT !.op = "translate", !.session_id = sessions[i].session_id,
                !.text = rq.text, !.target_lang = rq.target_lang,
                !.stages = r.stages, !.raised = r.raised,
                !.result = r.result, !.similarity = r.similarity,
                !.query = r.query, !.api = r.api, !.store = r.store,
                !.paused = r.paused,
                !.memory = sessions[i].memory,
                !.before = [translations |-> translations,
                            session_docs |-> session_docs,
                            request_count |-> sessions[i].request_count]]

\* the same, up to MaxCount provider calls
Resolved(i, rq, r) == ResolvedWithin(i, rq, r, MaxCount)

\* translator.translate(text=text, target_lang=target_lang) on the
\* translator registered for session_id
Translate(session_id, rq, env) ==
  /\ InRegistry(sessions, session_id)
  /\ Resolved(IndexOf(sessions, session_id), rq,
              translate(dictionary, translations, session_docs,
                        sessions[IndexOf(sessions, session_id)],
                        rq.text, rq.target_lang, env.query_raises,
                        env.api_outcome, env.store_outcome))
  /\ UNCHANGED <<dictionary, MAX_SESSIONS, handlers, creator, accessed,
                 logger>>

\* _get_or_create_session
GetOrCreateSession(session_id, memory_ok) ==
  /\ sessions' = get_or_create_session(sessions, session_id, memory_ok)
  /\ accessed' = Access(accessed, session_id)
  /\ last' = [NoOp EXCEPT !.op = "get_or_create", !.session_id = session_id,
                !.pool = sessions]
  /\ UNCHANGED <<dictionary, translations, session_docs, MAX_SESSIONS, handlers,
                 creator, logger>>

\* the parameters AgenticTranslator.translate accepts, and the keywords
\* POST /translate calls it with
translate_parameters == {"text", "target_lang"}

endpoint_keywords == {"text", "target_lang", "source_lang", "use_memory"}

\* the record of a call of POST /translate on the translator pool[i]
Called(pool, i, rq, use_memory) ==
  [NoOp EXCEPT !.op = "api_translate", !.session_id = pool[i].session_id,
               !.text = rq.text, !.target_lang = rq.target_lang,
               !.pool = sessions,
               !.memory = pool[i].memory, !.use_memory = use_memory,
               !.before = [translations |-> translations,
                           session_docs |-> session_docs,
                           request_count |-> pool[i].request_count]]

\* the answer to the call r of translate: every exception of the handler,
\* the KeyError of result["translation"] on an error result included, is
\* answered with status 500
Answered(pool, i, rq, use_memory, r) ==
  /\ sessions' = [pool EXCEPT ![i].request_count = r.request_count]
  /\ translations' = r.translations
  /\ session_docs' = r.session_docs
  /\ last' = [Called(pool, i, rq, use_memory) EXCEPT
                !.stages = r.stages, !.result = r.result,
                !.raised = IF r.raised = "" /\ r.result.error
                             THEN "KeyError" ELSE r.raised,
                !.similarity = r.similarity, !.query = r.query,
                !.api = r.api, !.store = r.store,
                !.status = IF r.raised = "" /\ ~r.result.error THEN 200 ELSE 500]

\* agent.translate is called by keyword; a keyword it does not accept raises
\* TypeError before any stage runs
CallTranslate(pool, i, rq, use_memory) ==
  IF endpoint_keywords \subseteq translate_parameters
    THEN \E env \in Environments :
           Answered(pool, i, rq, use_memory,
                    translate(dictionary, translations, session_docs, pool[i],
                              rq.text, rq.target_lang, env.query_raises,
                              env.api_outcome, env.store_outcome))
    ELSE /\ sessions' = pool
         /\ last' = [Called(pool, i, rq, use_memory) EXCEPT
                       !.raised = "TypeError", !.status = 500]
         /\ UNCHANGED <<translations, session_docs, logger>>

\* the handler on the registry `pool` left by _get_or_create_session
Handle(pool, session_id, rq, use_memory) ==
  CallTranslate(pool, IndexOf(pool, session_id), rq, use_memory)

\* POST /translate: the session's translator is fetched or created, then
\* agent.translate is called
ApiTranslate(session_id, rq, use_memory, memory_ok) ==
  /\ Handle(get_or_create_session(sessions, session_id, memory_ok),
            session_id, rq, use_memory)
  /\ accessed' = Access(accessed, session_id)
  /\ UNCHANGED <<dictionary, MAX_SESSIONS, handlers, creator, logger>>

\* a clear that deletes whichever registered id it is given
ClearSessionAny(session_id) ==
  /\ sessions' = IF InRegistry(sessions, session_id)
                   THEN RemoveAt(sessions, IndexOf(sessions, session_id))
                   ELSE sessions
  /\ last' = [NoOp EXCEPT !.op = "clear_session", !.session_id = session_id,
                !.status = 200, !.pool = sessions,
                !.message = IF InRegistry(sessions, session_id)
                              THEN "cleared" ELSE "retained"]
  /\ UNCHANGED <<dictionary, translations, session_docs, MAX_SESSIONS, handlers,
                 creator, accessed, logger>>

\* DELETE /session/{session_id}
ClearSession(session_id) ==
  /\ sessions' = IF InRegistry(sessions, session_id) /\ session_id # DEFAULT_SESSION_ID
                   THEN RemoveAt(sessions, IndexOf(sessions, session_id))
                   ELSE sessions
  /\ last' = [NoOp EXCEPT !.op = "clear_session", !.session_id = session_id,
                !.status = 200, !.pool = sessions,
                !.message = IF InRegistry(sessions, session_id)
                                /\ session_id # DEFAULT_SESSION_ID
                              THEN "cleared" ELSE "retained"]
  /\ UNCHANGED <<dictionary, translations, session_docs, MAX_SESSIONS, handlers,
                 creator, accessed, logger>>

\* DictionaryDatabase.add_term
AddTerm(english, zulu) ==
  /\ Len(dictionary) < MaxTerms
  /\ dictionary' = Append(dictionary, [english_original |-> english, zulu |-> zulu])
  /\ last' = [NoOp EXCEPT !.op = "add_term", !.text = english,
                !.candidate = zulu]
  /\ UNCHANGED <<sessions, translations, session_docs, MAX_SESSIONS, handlers,
                 creator, accessed, logger>>

\* DictionaryDatabase.get_exact_match called on its own
ExactMatch(text, failing) ==
  /\ last' = [NoOp EXCEPT !.op = "get_exact_match", !.text = text,
                !.failing = failing,
                !.candidate = get_exact_match_when(dictionary, text, failing)]
  /\ UNCHANGED <<sessions, dictionary, translations, session_docs,
                 MAX_SESSIONS, handlers, creator, accessed, logger>>

\* TranslationValidator.validate_input called on its own
ValidateInput(text, target_lang) ==
  /\ last' = [NoOp EXCEPT !.op = "validate_input", !.text = text,
                !.target_lang = target_lang,
                !.validation = ValidatorTable[Request(text, target_lang)]]
  /\ UNCHANGED <<sessions, dictionary, translations, session_docs,
                 MAX_SESSIONS, handlers, creator, accessed, logger>>

\* TranslationMemory.store_translation called on its own
StoreTranslation(input_text, target_lang, session_id, outcome) ==
  /\ Len(translations) < MaxStored
  /\ translations' =
       store_translation(translations, session_docs, input_text,
                         OutputFor(session_id), target_lang, session_id,
                         outcome).translations
  /\ session_docs' =
       store_translation(translations, session_docs, input_text,
                         OutputFor(session_id), target_lang, session_id,
                         outcome).session_docs
  /\ last' = [NoOp EXCEPT !.op = "store_translation", !.text = input_text,
                !.target_lang = target_lang, !.session_id = session_id,
                !.store = outcome,
                !.before = [translations |-> translations,
                            session_docs |-> session_docs,
                            request_count |-> 0]]
  /\ UNCHANGED <<sessions, dictionary, MAX_SESSIONS, handlers, creator, accessed,
                 logger>>

\* TranslationMemory.clear_session called on its own
MemoryClearSession(session_id, raises) ==
  /\ translations' =
       memory_clear_session(translations, session_docs, session_id, raises).translations
  /\ session_docs' =
       memory_clear_session(translations, session_docs, session_id, raises).session_docs
  /\ last' = [NoOp EXCEPT !.op = "memory_clear_session", !.session_id = session_id,
                !.raised = IF raises THEN "caught" ELSE "",
                !.before = [translations |-> translations,
                            session_docs |-> session_docs,
                            request_count |-> 0]]
  /\ UNCHANGED <<sessions, dictionary, MAX_SESSIONS, handlers, creator, accessed,
                 logger>>

\* TranslationMemory.find_similar called on its own; "" is a filter that is
\* not supplied
FindSimilar(query_text, target_lang, session_id, limit, raises) ==
  /\ last' = [NoOp EXCEPT !.op = "find_similar", !.text = query_text,
                !.target_lang = target_lang, !.session_id = session_id,
                !.limit = limit,
                !.query = IF raises THEN "raised" ELSE "ok",
                !.where = where_filter(target_lang, session_id),
                !.before = [translations |-> translations,
                            session_docs |-> session_docs,
                            request_count |-> 0],
                !.memory_results =
                  find_similar(translations, query_text, target_lang,
                               session_id, limit, raises)]
  /\ UNCHANGED <<sessions, dictionary, translations, session_docs,
                 MAX_SESSIONS, handlers, creator, accessed, logger>>

\* TranslationValidator.validate_output called on its own
ValidateOutput(source_text, translated_text, source_type) ==
  /\ last' = [NoOp EXCEPT !.op = "validate_output", !.text = source_text,
                !.candidate = translated_text, !.source_type = source_type,
                !.output_validation =
                  validate_output(source_text, translated_text, source_type)]
  /\ UNCHANGED <<sessions, dictionary, translations, session_docs,
                 MAX_SESSIONS, handlers, creator, accessed, logger>>

\* the outcomes drawn for a resolution by the translator `tr`: none when the
\* request ends at the validator or at the dictionary, and no raising query
\* when the translator has no memory to query
EnvironmentsFor(tr, rq) ==
  IF \/ ~ValidationTable[rq].is_valid
     \/ Truthy(get_exact_match(dictionary, ValidationTable[rq].sanitized_text))
    THEN {NoCalls}
    ELSE {env \in Environments : tr.memory \/ ~env.query_raises}

\* the resolution pipeline on the translator of the default session
Next ==
  \/ \E rq \in Requests :
       \E env \in EnvironmentsFor(sessions[IndexOf(sessions, DEFAULT_SESSION_ID)], rq) :
         Translate(DEFAULT_SESSION_ID, rq, env)
  \/ \E english \in TermKeys, zulu \in TermValues : AddTerm(english, zulu)

Spec == Init /\ [][Next]_vars

(***************************************************************************)
(* Requests served concurrently.  Every handler of api/main.py is an       *)
(* `async def` without an await, and uvicorn runs them on one event loop   *)
(* in one process: a handler that has started runs to its end before       *)
(* another one starts.  A request calls _get_or_create_session, line by    *)
(* line, then resolves one text through the provider, which counts it.     *)
(***************************************************************************)
\* a scheduler that may switch between handlers at any line
EventLoopFreePreemptive(h) == TRUE

\* the event loop can run a line of h: no other handler is between its
\* first line and its return
EventLoopFree(h) ==
  \A g \in HandlerIds \ {h} : handlers[g].pc \in {"idle", "pending", "done", "failed"}

\* sessions[session_id] = translator
Assign(sess, translator) ==
  IF InRegistry(sess, translator.session_id)
    THEN [sess EXCEPT ![IndexOf(sess, translator.session_id)] = translator]
    ELSE Append(sess, translator)

\* the keys the eviction loop pops
Popped(sess) ==
  {sess[i].session_id : i \in 1..Len(sess)}
    \ {EvictOne(sess)[i].session_id : i \in 1..Len(EvictOne(sess))}

\* the translator h holds is the one registered for its session id
Holds(h) ==
  /\ InRegistry(sessions, handlers[h].session_id)
  /\ creator[handlers[h].session_id].by = handlers[h].returned

\* a request for session_id arrives and waits for the event loop
Arrive(h, session_id) ==
  /\ handlers[h].pc = "idle"
  /\ handlers' = [handlers EXCEPT ![h].pc = "pending", ![h].session_id = session_id]
  /\ UNCHANGED <<sessions, dictionary, translations, session_docs, last,
                 MAX_SESSIONS, accessed, creator, logger>>

\* line 84: if session_id in sessions
Check(h) ==
  /\ handlers[h].pc = "pending"
  /\ EventLoopFree(h)
  /\ handlers' = [handlers EXCEPT
       ![h].pc = IF InRegistry(sessions, handlers[h].session_id)
                   THEN "move" ELSE "size",
       ![h].found = sessions,
       ![h].expect = get_or_create_session(sessions, handlers[h].session_id, TRUE)]
  /\ accessed' = Access(accessed, handlers[h].session_id)
  /\ UNCHANGED <<sessions, dictionary, translations, session_docs, last,
                 MAX_SESSIONS, creator, logger>>

\* lines 85-86: move_to_end and return sessions[session_id]; a key that is
\* gone raises KeyError
MoveToEnd(h) ==
  /\ handlers[h].pc = "move"
  /\ EventLoopFree(h)
  /\ IF InRegistry(sessions, handlers[h].session_id)
       THEN /\ sessions' = Append(RemoveAt(sessions, IndexOf(sessions, handlers[h].session_id)),
                                  sessions[IndexOf(sessions, handlers[h].session_id)])
            /\ handlers' = [handlers EXCEPT
                 ![h].pc = "got",
                 ![h].returned = creator[handlers[h].session_id].by,
                 ![h].epoch = creator[handlers[h].session_id].epoch]
       ELSE /\ sessions' = sessions
            /\ handlers' = [handlers EXCEPT ![h].pc = "failed"]
  /\ UNCHANGED <<dictionary, translations, session_docs, last, MAX_SESSIONS,
                 accessed, creator, logger>>

\* line 89: if len(sessions) >= MAX_SESSIONS
Size(h) ==
  /\ handlers[h].pc = "size"
  /\ EventLoopFree(h)
  /\ handlers' = [handlers EXCEPT
       ![h].pc = IF Len(sessions) >= MAX_SESSIONS THEN "evict" ELSE "create"]
  /\ UNCHANGED <<sessions, dictionary, translations, session_docs, last,
                 MAX_SESSIONS, accessed, creator, logger>>

\* lines 90-93: pop the first key that is not the default
Evict(h) ==
  /\ handlers[h].pc = "evict"
  /\ EventLoopFree(h)
  /\ sessions' = EvictOne(sessions)
  /\ creator' = [k \in SessionIds |->
                   IF k \in Popped(sessions)
                     THEN [NotCreated EXCEPT !.epoch = creator[k].epoch + 1]
                     ELSE creator[k]]
  /\ handlers' = [handlers EXCEPT ![h].pc = "create"]
  /\ UNCHANGED <<dictionary, translations, session_docs, last, MAX_SESSIONS,
                 accessed, logger>>

\* line 95: translator = create_translator(session_id=session_id)
Create(h) ==
  /\ handlers[h].pc = "create"
  /\ EventLoopFree(h)
  /\ handlers' = [handlers EXCEPT ![h].pc = "insert", ![h].returned = h]
  /\ UNCHANGED <<sessions, dictionary, translations, session_docs, last,
                 MAX_SESSIONS, accessed, creator, logger>>

\* lines 96-97: sessions[session_id] = translator; return translator
Insert(h) ==
  /\ handlers[h].pc = "insert"
  /\ EventLoopFree(h)
  /\ sessions' = Assign(sessions, create_translator(handlers[h].session_id, TRUE))
  /\ creator' = [creator EXCEPT
       ![handlers[h].session_id] =
          [creator[handlers[h].session_id] EXCEPT
             !.by = h, !.made = creator[handlers[h].session_id].made + 1]]
  /\ handlers' = [handlers EXCEPT
       ![h].pc = "got", ![h].epoch = creator[handlers[h].session_id].epoch]
  /\ UNCHANGED <<dictionary, translations, session_docs, last, MAX_SESSIONS,
                 accessed, logger>>

\* agent.py line 42, the read of self.request_count += 1, on the translator
\* the request was given
ReadCount(h) ==
  /\ handlers[h].pc = "got"
  /\ EventLoopFree(h)
  /\ handlers' = [handlers EXCEPT
       ![h].pc = "counting",
       ![h].found = <<>>, ![h].expect = <<>>,
       ![h].count = IF Holds(h)
                      THEN sessions[IndexOf(sessions, handlers[h].session_id)].request_count
                      ELSE 0]
  /\ UNCHANGED <<sessions, dictionary, translations, session_docs, last,
                 MAX_SESSIONS, accessed, creator, logger>>

\* agent.py line 42, the write of self.request_count += 1
WriteCount(h) ==
  /\ handlers[h].pc = "counting"
  /\ EventLoopFree(h)
  /\ sessions' = IF Holds(h)
                   THEN [sessions EXCEPT
                           ![IndexOf(sessions, handlers[h].session_id)].request_count =
                              handlers[h].count + 1]
                   ELSE sessions
  /\ handlers' = [handlers EXCEPT ![h].pc = "done", ![h].count = 0]
  /\ UNCHANGED <<dictionary, translations, session_docs, last, MAX_SESSIONS,
                 accessed, creator, logger>>

NextConcurrent ==
  \/ \E h \in HandlerIds, session_id \in SessionIds : Arrive(h, session_id)
  \/ \E h \in HandlerIds : Check(h)
  \/ \E h \in HandlerIds : MoveToEnd(h)
  \/ \E h \in HandlerIds : Size(h)
  \/ \E h \in HandlerIds : Evict(h)
  \/ \E h \in HandlerIds : Create(h)
  \/ \E h \in HandlerIds : Insert(h)
  \/ \E h \in HandlerIds : ReadCount(h)
  \/ \E h \in HandlerIds : WriteCount(h)

SpecConcurrent == InitApi /\ [][NextConcurrent]_vars

\* the provider calls of one translator, the default session's, over its
\* lifetime: resolutions that reach the provider and resolutions that end
\* at validation or at the dictionary
ThrottleRequests ==
  {Request(<<>>, "zu"), Request(<<"d","r">>, "zu"), Request(Hi, "zu")}

TranslateCounted(rq, env) ==
  /\ ResolvedWithin(IndexOf(sessions, DEFAULT_SESSION_ID), rq,
                    translate(dictionary, translations, session_docs,
                              sessions[IndexOf(sessions, DEFAULT_SESSION_ID)],
                              rq.text, rq.target_lang, env.query_raises,
                              env.api_outcome, env.store_outcome),
                    MaxCalls)
  /\ UNCHANGED <<dictionary, MAX_SESSIONS, handlers, creator, accessed,
                 logger>>

NextThrottle ==
  \E rq \in ThrottleRequests :
    \E env \in EnvironmentsFor(sessions[IndexOf(sessions, DEFAULT_SESSION_ID)], rq) :
      TranslateCounted(rq, env)

SpecThrottle == Init /\ [][NextThrottle]_vars

\* translators of two sessions resolving over the one cache: the same text
\* to the same and to another language, and a text close to it
SharedSessions == {DEFAULT_SESSION_ID, "s1"}

SharedRequests == {Request(Hi, "zu"), Request(Hi, "xh"), Request(Ho, "zu")}

\* the provider fails or answers, the query works or raises, the store
\* works or fails before it writes
SharedEnvironmentsFor(tr, rq) ==
  {env \in EnvironmentsFor(tr, rq) :
     /\ env.api_outcome \in {"failure", "genuine"}
     /\ env.store_outcome # "fail_secondary"}

NextShared ==
  \/ \E memory_ok \in BOOLEAN : GetOrCreateSession("s1", memory_ok)
  \/ \E session_id \in SharedSessions, rq \in SharedRequests :
       /\ InRegistry(sessions, session_id)
       /\ \E env \in SharedEnvironmentsFor(sessions[IndexOf(sessions, session_id)], rq) :
            Translate(session_id, rq, env)
  \/ AddTerm(Hi, Yebo)

SpecShared == Init /\ [][NextShared]_vars

\* the registry with translators that are used: sessions are created,
\* evicted and cleared while their translators resolve requests, as
\* POST /run-tests calls translator.translate(text=text, target_lang=target_lang)
CountedSessions == {DEFAULT_SESSION_ID, "s1", "s2"}

\* the provider fails or answers; the cache and the store work
CountedEnvironments ==
  {Environment(FALSE, api_outcome, "ok") : api_outcome \in {"failure", "genuine"}}

\* a registry of capacity 1 or 2
CountedCapacities == {1, 2}

InitCounted == \E capacity \in CountedCapacities : Started(capacity)

NextCounted ==
  \/ \E session_id \in CountedSessions, memory_ok \in BOOLEAN :
       GetOrCreateSession(session_id, memory_ok)
  \/ \E session_id \in CountedSessions : ClearSession(session_id)
  \/ \E session_id \in CountedSessions, env \in CountedEnvironments :
       Translate(session_id, Request(Hi, "zu"), env)

SpecCounted == InitCounted /\ [][NextCounted]_vars

\* the logger on its own: threads calling log on the one TranslationLogger
Registry == <<sessions, dictionary, translations, session_docs, last,
              MAX_SESSIONS, accessed, handlers, creator>>

At(t, pc) == logger.pc[t] = pc

Goto(t, pc) == [logger.pc EXCEPT ![t] = pc]

\* a lock that is never held: every thread may enter
LockFreeAlways(t) == TRUE

\* threading.Lock: acquired only while no thread holds it
LockFree(t) == logger._lock = ""

\* log, up to the lock: the entry is built from the arguments
LogEntry(t) ==
  /\ At(t, "idle")
  /\ logger' = [logger EXCEPT !.pc = Goto(t, "entry")]
  /\ UNCHANGED Registry

\* with self._lock
LogAcquire(t) ==
  /\ At(t, "entry")
  /\ LockFree(t)
  /\ logger' = [logger EXCEPT !._lock = t, !.pc = Goto(t, "locked")]
  /\ UNCHANGED Registry

\* open(self.log_file, "a") and f.write: the text of the record
LogWrite(t) ==
  /\ At(t, "locked")
  /\ logger' = [logger EXCEPT
                  !.log_file = Append(@, Chunk(t, "record")),
                  !.pc = Goto(t, "writing")]
  /\ UNCHANGED Registry

\* leaving `with open`: the rest of the record and its newline are flushed
LogClose(t) ==
  /\ At(t, "writing")
  /\ logger' = [logger EXCEPT
                  !.log_file = Append(@, Chunk(t, "newline")),
                  !.pc = Goto(t, "written")]
  /\ UNCHANGED Registry

\* leaving `with self._lock`: log returns
LogRelease(t) ==
  /\ At(t, "written")
  /\ logger' = [logger EXCEPT !._lock = "", !.pc = Goto(t, "done")]
  /\ UNCHANGED Registry

NextLogger ==
  \E t \in LogThreads :
    \/ LogEntry(t)
    \/ LogAcquire(t)
    \/ LogWrite(t)
    \/ LogClose(t)
    \/ LogRelease(t)

SpecLogger == Init /\ [][NextLogger]_vars

\* the validator on its own
NextValidator ==
  \E text \in ValidatorTexts : \E target_lang \in ValidatorLangs :
    ValidateInput(text, target_lang)

SpecValidator == Init /\ [][NextValidator]_vars

\* the dictionary on its own: terms added and looked up
NextDictionary ==
  \/ \E english \in AddedKeys, zulu \in TermValues : AddTerm(english, zulu)
  \/ \E text \in LookupTexts :
       \E failing \in {{}, {Strip(Lower(text))}} : ExactMatch(text, failing)

SpecDictionary == Init /\ [][NextDictionary]_vars

\* the memory on its own: translations stored by two sessions in two
\* languages, and queries with either, both or none of the filters
NextMemory ==
  \/ \E input_text \in MemoryInputs, target_lang \in MemoryLangs,
        session_id \in MemorySessions, outcome \in StoreOutcomes :
       StoreTranslation(input_text, target_lang, session_id, outcome)
  \/ \E target_lang \in QueryLangs, session_id \in MemorySessions \cup {""},
        limit \in MemoryLimits, raises \in BOOLEAN :
       FindSimilar(Hi, target_lang, session_id, limit, raises)
  \/ \E session_id \in MemorySessions, raises \in BOOLEAN :
       MemoryClearSession(session_id, raises)

\* started with a memory that could be opened
InitMemory == Init /\ sessions[1].memory

SpecMemory == InitMemory /\ [][NextMemory]_vars

\* the quality scorer on its own
NextScorer ==
  \E source_text \in ScorerSources, translated_text \in ScorerCandidates,
     source_type \in SourceTypes :
    ValidateOutput(source_text, translated_text, source_type)

SpecScorer == Init /\ [][NextScorer]_vars

\* the session registry and the endpoints of api/main.py
NextApi ==
  \/ \E session_id \in SessionIds, memory_ok \in BOOLEAN :
       GetOrCreateSession(session_id, memory_ok)
  \/ \E session_id \in SessionIds, rq \in ApiRequests,
        use_memory \in BOOLEAN, memory_ok \in BOOLEAN :
       ApiTranslate(session_id, rq, use_memory, memory_ok)
  \/ \E session_id \in SessionIds : ClearSession(session_id)

SpecApi == InitApi /\ [][NextApi]_vars

TypeOK ==
  /\ Len(sessions) <= MAX_SESSIONS + 1
  /\ Len(translations) <= MaxRecords

(***************************************************************************)
(* Properties of the resolution pipeline.  They are read from `last`, the  *)
(* record of the last operation: its request, the stages it entered, what  *)
(* it returned or raised, and the state it started from (`last.before`).   *)
(* Translate leaves the dictionary unchanged, so the dictionary of a state *)
(* whose last operation is a resolution is the one the resolution read.    *)
(***************************************************************************)
\* the validation of the request of the last operation
Validated == ValidationTable[Request(last.text, last.target_lang)]

\* the translator of the last operation
Translator == sessions[IndexOf(sessions, last.session_id)]

Range(s) == {s[i] : i \in 1..Len(s)}

StagePosition(stage) ==
  CASE stage = "validate" -> 0
    [] stage = "dictionary" -> 1
    [] stage = "memory" -> 2
    [] stage = "provider" -> 3
    [] stage = "store" -> 4
    [] stage = "passthrough" -> 5

StrictlyOrdered(stages) ==
  \A i \in 1..(Len(stages) - 1) :
    StagePosition(stages[i]) < StagePosition(stages[i + 1])

\* the best cache matches for a text in the cache the last operation started from
TopMatch(text, target_lang) ==
  find_similar(last.before.translations, text, target_lang, "", 3, FALSE)

\* C1: for every request that passes validation the stages run in the strict
\* order dictionary, similarity cache, provider, passthrough, and the result
\* is the one of the first stage that produces one: a dictionary hit ends
\* the pipeline at the dictionary; a cache hit after a dictionary miss ends it
\* at the cache; a genuine provider answer after both missed is returned as
\* api; source=memory implies the dictionary missed, source=api that the
\* dictionary and the cache missed (or the cache failed), source=none that
\* all three missed or failed.
C1_StrictStageOrder ==
  (last.op = "translate" /\ Validated.is_valid) =>
    LET cleaned == Validated.sanitized_text
        top == TopMatch(cleaned, last.target_lang)
        hitDictionary == Truthy(get_exact_match(dictionary, cleaned))
        hitCache == /\ last.memory /\ last.query # "raised"
                    /\ top # <<>> /\ top[1].similarity > 70
        hitProvider == Genuine(last.api, cleaned)
        stages == last.stages
        source == last.result.source
    IN /\ StrictlyOrdered(stages)
       /\ stages[1] = "validate" /\ stages[2] = "dictionary"
       /\ hitDictionary =>
            stages = <<"validate", "dictionary">> /\ source = "dictionary"
       /\ (~hitDictionary /\ hitCache) =>
            stages = <<"validate", "dictionary", "memory">> /\ source = "memory"
       /\ (~hitDictionary /\ ~hitCache) => "provider" \in Range(stages)
       /\ (~hitDictionary /\ ~hitCache /\ hitProvider) =>
            source = "api" /\ "passthrough" \notin Range(stages)
       /\ (~hitDictionary /\ ~hitCache /\ ~hitProvider) =>
            stages[Len(stages)] = "passthrough"
       /\ last.raised = "" =>
            /\ source \in {"dictionary", "memory", "api", "none"}
            /\ source = "memory" => ~hitDictionary
            /\ source = "api" => ~hitDictionary /\ ~hitCache
            /\ source = "none" => ~hitDictionary /\ ~hitCache /\ ~hitProvider

\* C1 witness: a resolution that went through every stage down to passthrough
C1_Witness ==
  /\ last.op = "translate" /\ last.raised = ""
  /\ last.result.source = "none"
  /\ last.stages = <<"validate", "dictionary", "memory", "provider", "passthrough">>

\* C2: for every input the validator accepts, an input whose sanitized text
\* is empty included, translate returns a result carrying translation,
\* source, quality and confidence and raises nothing.
C2_AcceptedInputReturnsResult ==
  (last.op = "translate" /\ Validated.is_valid) =>
    /\ last.raised = ""
    /\ last.result.translation # None
    /\ last.result.source \in {"dictionary", "memory", "api", "none"}
    /\ last.result.quality \in {"high", "medium", "low"}
    /\ last.result.confidence # NoScore

\* the dictionary has an entry whose key is one of the variants of the text
KeyMatch(dict, text) ==
  \E i \in 1..Len(dict) : dict[i].english_original \in Range(VariantsOf(text))

\* the stored value the lookup reads: the one of the first entry matching
\* the first matching variant
MatchedValue(dict, text) ==
  LET vs == VariantsOf(text)
      v == CHOOSE k \in 1..Len(vs) :
             /\ CollectionGet(dict, vs[k]) # <<>>
             /\ \A j \in 1..(k - 1) : CollectionGet(dict, vs[j]) = <<>>
  IN CollectionGet(dict, vs[v])[1].zulu

\* the capitalization policy: all upper case for an upper-case input, first
\* letter upper for a capitalized input, unchanged otherwise
CapitalizedAs(text, zulu) ==
  IF IsUpper(text) THEN Upper(zulu)
  ELSE IF IsUpperChar(text[1]) THEN Capitalized(zulu)
  ELSE zulu

HasPlaceholder(translated_text) ==
  \E p \in placeholders : Contains(translated_text, p)

DictionaryResult(text, zulu) ==
  /\ last.raised = ""
  /\ last.result.source = "dictionary"
  /\ last.result.quality = "high"
  /\ last.result.confidence = 95
  /\ last.result.translation = CapitalizedAs(text, zulu)

\* C3 as stated: for every valid input with a normalized key match in the
\* dictionary, whatever the stored value, translate returns
\* source=dictionary, quality=high, confidence 0.95 and the stored value in
\* the capitalization of the input.
C3_KeyMatchAnyValue ==
  (last.op = "translate" /\ Validated.is_valid) =>
    LET cleaned == Validated.sanitized_text
    IN (cleaned # <<>> /\ KeyMatch(dictionary, cleaned)) =>
         DictionaryResult(cleaned, MatchedValue(dictionary, cleaned))

\* C3 amended: the same, for a key match whose stored value is non-empty and
\* holds no placeholder marker.
C3_KeyMatchCleanValue ==
  (last.op = "translate" /\ Validated.is_valid) =>
    LET cleaned == Validated.sanitized_text
        value == MatchedValue(dictionary, cleaned)
    IN (cleaned # <<>> /\ KeyMatch(dictionary, cleaned)
          /\ value # <<>> /\ ~HasPlaceholder(value)) =>
         DictionaryResult(cleaned, value)

\* C3 witness: a capitalized input answered from the dictionary with the
\* capitalized stored value
C3_Witness ==
  /\ last.op = "translate" /\ last.text = <<"D","r">>
  /\ last.result.source = "dictionary"
  /\ last.result.translation = <<"U","d","k","t">>
  /\ last.result.confidence = 95

\* C4: the acceptance test is strictly greater than 0.7 on the top match: a
\* best similarity of exactly 0.70 is a miss and the provider stage runs; a
\* best similarity of 0.71 returns the cached output with source=memory and
\* the provider is not called.
C4_StrictThreshold ==
  (last.op = "translate" /\ last.query = "ok") =>
    LET top == TopMatch(Validated.sanitized_text, last.target_lang)
    IN /\ (top # <<>> /\ top[1].similarity = 70) =>
            /\ "provider" \in Range(last.stages)
            /\ last.result.source # "memory"
       /\ (top # <<>> /\ top[1].similarity = 71) =>
            /\ last.result.source = "memory"
            /\ last.result.translation = top[1].output
            /\ last.result.confidence = 71
            /\ "provider" \notin Range(last.stages)
            /\ Translator.request_count = last.before.request_count

\* C4 witness: a best match of exactly 0.70 was found and the provider ran
C4_Witness ==
  /\ last.op = "translate" /\ last.query = "ok"
  /\ last.similarity = 70
  /\ "provider" \in Range(last.stages)

\* C5: when validation fails (empty or blank text, unsupported language,
\* dangerous content) translate ends with an error result with a non-empty
\* errors list and no further stage runs: no lookup, no provider call,
\* nothing stored, request_count unchanged.
C5_ValidationFailureStops ==
  (last.op = "translate"
     /\ \/ Strip(last.text) = <<>>
        \/ last.target_lang \notin supported_languages
        \/ CheckInjection(SanitizeText(last.text))) =>
    /\ last.raised = ""
    /\ last.result.error
    /\ last.result.errors # <<>>
    /\ last.stages = <<"validate">>
    /\ last.query = "none" /\ last.api = None /\ last.store = "none"
    /\ translations = last.before.translations
    /\ session_docs = last.before.session_docs
    /\ Translator.request_count = last.before.request_count

\* C5 witness: a request with dangerous content was rejected
C5_Witness ==
  /\ last.op = "translate"
  /\ CheckInjection(SanitizeText(last.text))
  /\ last.result.error /\ last.result.errors # <<>>

\* the step is a resolution of the request the last operation resolved
\* through the provider, by the same translator
ResolvedAgain ==
  /\ last.op = "translate" /\ last.raised = "" /\ last.result.source = "api"
  /\ last'.op = "translate"
  /\ last'.session_id = last.session_id
  /\ last'.text = last.text
  /\ last'.target_lang = last.target_lang

AnsweredFromCache ==
  /\ last'.query = "ok"
  /\ last'.similarity > 70
  /\ last'.raised = ""
  /\ last'.result.source = "memory"
  /\ last'.result.translation = last.result.translation
  /\ "provider" \notin Range(last'.stages)
  /\ sessions' = sessions

C7_DependencyFailureNeverFails ==
  (last.op = "translate" /\ Validated.is_valid) =>
    /\ last.query = "raised" => "provider" \in Range(last.stages)
    /\ ("provider" \in Range(last.stages) /\ ~Truthy(last.api)) =>
         /\ last.raised = ""
         /\ last.result.source = "none"
         /\ last.result.translation = Validated.sanitized_text
    /\ last.store = "fail_primary" =>
         /\ last.raised = ""
         /\ last.result.source = "api"
         /\ last.result.translation = last.api

\* C8: POST /translate fails only on validation rejections: every valid
\* request is answered with success and the pipeline's translation and
\* source, and an invalid request with a validation rejection, not with an
\* internal (5xx) error.
C8_OnlyValidationRejections ==
  last.op = "api_translate" =>
    IF Validated.is_valid
      THEN /\ last.status = 200
           /\ last.result.translation # None
           /\ last.result.source \in {"dictionary", "memory", "api", "none"}
      ELSE /\ last.status < 500
           /\ last.result.error

\* C9: the cache stage runs only if the caller opted in: with use_cache
\* false the cache is never queried and a dictionary miss goes directly to
\* the provider; with use_cache true the cache is queried before the
\* provider.
C9_CacheOptIn ==
  (last.op = "api_translate" /\ Validated.is_valid
     /\ ~Truthy(get_exact_match(dictionary, Validated.sanitized_text))) =>
    /\ ~last.use_memory =>
         /\ "memory" \notin Range(last.stages)
         /\ "provider" \in Range(last.stages)
    /\ (last.use_memory /\ last.memory) =>
         /\ "memory" \in Range(last.stages)
         /\ StrictlyOrdered(last.stages)

\* C10: request_count never decreases and grows by exactly one with every
\* completed resolution, whichever stage satisfied it.
C10_CountsEveryResolution ==
  last.op = "translate" =>
    /\ Translator.request_count >= last.before.request_count
    /\ (last.raised = "" /\ ~last.result.error) =>
         Translator.request_count = last.before.request_count + 1

\* the record a resolution by the provider is to leave in the cache
ProviderRecord ==
  [input |-> Validated.sanitized_text, output |-> last.result.translation,
   target_lang |-> last.target_lang, session_id |-> last.session_id]

ProviderAnswerGenuine ==
  /\ Genuine(last.api, Validated.sanitized_text)
  /\ last.result.translation = last.api

\* C11 as stated: whenever translate returns source=api the provider's
\* answer was genuine and a record with the sanitized text, the returned
\* translation, the requested language and the translator's session id has
\* been stored in the cache.
C11_ApiResultStored ==
  (last.op = "translate" /\ last.raised = "" /\ last.result.source = "api") =>
    /\ ProviderAnswerGenuine
    /\ translations = Append(last.before.translations, ProviderRecord)

\* C11 amended: the answer was genuine, and the record has been stored when
\* the translator has a memory and the store did not raise.
C11_ApiResultStoredWhenCacheUp ==
  (last.op = "translate" /\ last.raised = "" /\ last.result.source = "api") =>
    /\ ProviderAnswerGenuine
    /\ (last.memory /\ last.store = "ok") =>
         translations = Append(last.before.translations, ProviderRecord)

\* C11 witness: a provider result was returned and its record is the newest
\* of the cache
C11_Witness ==
  /\ last.op = "translate" /\ last.result.source = "api"
  /\ last.memory /\ last.store = "ok"
  /\ translations # <<>>
  /\ translations[Len(translations)] = ProviderRecord

(***************************************************************************)
(* Properties of the session registry.  `last.pool` is the registry the    *)
(* last call found, `accessed` the order in which the ids were last        *)
(* accessed.                                                               *)
(***************************************************************************)
Ids(sess) == Range(list_sessions(sess))

NonDefault(ids) == ids \ {DEFAULT_SESSION_ID}

\* the position of an id in the order of last access
AccessRank(session_id) ==
  CHOOSE i \in 1..Len(accessed) : accessed[i] = session_id

\* the id of `ids` accessed the longest ago
LeastRecentlyAccessed(ids) ==
  CHOOSE k \in ids : \A j \in ids : AccessRank(k) <= AccessRank(j)

\* the last call created an entry for an id the registry did not hold
CreatedEntry ==
  /\ last.op \in {"get_or_create", "api_translate"}
  /\ last.session_id \notin Ids(last.pool)
  /\ last.session_id \in Ids(sessions)

AtCapacity == Len(last.pool) >= MAX_SESSIONS

Evicted == Ids(last.pool) \ Ids(sessions)

\* after more than MAX_SESSIONS distinct non-default ids were created, the
\* one accessed the longest ago is not listed
OldestNotListed ==
  Cardinality(NonDefault(Range(accessed))) >= MAX_SESSIONS + 1 =>
    LeastRecentlyAccessed(NonDefault(Range(accessed))) \notin Ids(sessions)

C13_DefaultAlwaysPresent ==
  /\ InRegistry(sessions, DEFAULT_SESSION_ID)
  /\ Cardinality({i \in 1..Len(sessions) :
                    sessions[i].session_id = DEFAULT_SESSION_ID}) = 1

\* C13 witness: a creation found the registry at its capacity with the
\* default entry first in its order, evicted another entry and left the
\* default one
C13_Witness ==
  /\ CreatedEntry /\ AtCapacity
  /\ last.pool[1].session_id = DEFAULT_SESSION_ID
  /\ Evicted # {}
  /\ sessions[1].session_id = DEFAULT_SESSION_ID

\* C14: the registry never holds more than MAX_SESSIONS + 1 entries, and an
\* insertion that finds a non-default entry to evict leaves at most
\* MAX_SESSIONS entries: the registry exceeds MAX_SESSIONS only by an
\* insertion that found no non-default entry.
C14_SizeBound ==
  /\ Len(sessions) <= MAX_SESSIONS + 1
  /\ (CreatedEntry /\ NonDefault(Ids(last.pool)) # {}) =>
       Len(sessions) <= MAX_SESSIONS

\* C15: clear_session on the default id leaves the registry as it found it,
\* the default entry with its translator and request_count and every other
\* entry, and reports the session as "retained".
C15_ClearDefaultRetained ==
  (last.op = "clear_session" /\ last.session_id = DEFAULT_SESSION_ID) =>
    /\ sessions = last.pool
    /\ InRegistry(sessions, DEFAULT_SESSION_ID)
    /\ last.message = "retained"
    /\ last.status = 200

\* C15 witness: the default id was cleared on a registry that holds other
\* sessions too
C15_Witness ==
  /\ last.op = "clear_session" /\ last.session_id = DEFAULT_SESSION_ID
  /\ last.message = "retained"
  /\ Len(last.pool) = DefaultMaxSessions
  /\ sessions = last.pool

(***************************************************************************)
(* Properties of the quality scorer, read from the record of the last call *)
(* of validate_output: `last.text` is the source, `last.candidate` the     *)
(* translated text.                                                        *)
(***************************************************************************)
Scored == last.op = "validate_output" /\ Truthy(last.candidate)

SameIgnoringCase == Lower(last.candidate) = Lower(last.text)

\* len(candidate)/len(source) < 0.3 and > 3.0, for a non-empty source
RatioBelow == Len(last.text) > 0 /\ 10 * Len(last.candidate) < 3 * Len(last.text)

RatioAbove == Len(last.text) > 0 /\ Len(last.candidate) > 3 * Len(last.text)

Assessed(quality, score) ==
  last.output_validation = [quality |-> quality, score |-> score]

\* C16: for a non-empty candidate without placeholder marker and a source
\* type other than dictionary, the scorer returns low/0.2 when the source
\* type is api and the candidate equals the source ignoring case; otherwise
\* low/0.3 when the length ratio is below 0.3, low/0.4 when it is above 3.0
\* and medium/0.8 in every other case, the ratios 0.3 and 3.0 included.
C16_ScorerRules ==
  (Scored /\ last.source_type # "dictionary" /\ ~HasPlaceholder(last.candidate)) =>
    IF last.source_type = "api" /\ SameIgnoringCase THEN Assessed("low", 20)
    ELSE IF RatioBelow THEN Assessed("low", 30)
    ELSE IF RatioAbove THEN Assessed("low", 40)
    ELSE Assessed("medium", 80)

\* C16 witness: a candidate of 3 characters for a source of 10, ratio 0.3,
\* is assessed medium/0.8
C16_Witness ==
  /\ Scored /\ last.source_type = "memory"
  /\ Len(last.text) = 10 /\ Len(last.candidate) = 3
  /\ ~HasPlaceholder(last.candidate)
  /\ Assessed("medium", 80)

\* C17: a non-empty candidate that contains a placeholder marker is
\* assessed low/0.5 whatever the source type and whatever the earlier rules
\* found, a candidate equal to the source under api and a dictionary source
\* included.
C17_PlaceholderAlwaysDowngrades ==
  (Scored /\ HasPlaceholder(last.candidate)) => Assessed("low", 50)

(***************************************************************************)
(* Properties of the memory, read from the record of the last call of      *)
(* find_similar; the call leaves the collection as it found it.            *)
(***************************************************************************)
Found == last.op = "find_similar"

\* the stored records that match the filters supplied
Matching(target_lang, session_id) ==
  SelectSeq(translations, LAMBDA r :
    /\ (target_lang # "" => r.target_lang = target_lang)
    /\ (session_id # "" => r.session_id = session_id))

\* what a result shows of a record
Shown(rec) ==
  [input |-> rec.input, output |-> rec.output, target_lang |-> rec.target_lang]

ShownOf(result) ==
  [input |-> result.input, output |-> result.output,
   target_lang |-> result.target_lang]

\* the candidates the index returns for the target_lang filter alone, with
\* those of other sessions discarded
ClientSideFiltered ==
  SelectSeq(Nearest(last.text, Matching(last.target_lang, ""), last.limit),
            LAMBDA r : r.session_id = last.session_id)

\* C18: find_similar passes target_lang to the index when it is supplied,
\* else session_id when that is supplied; with both it discards the
\* candidates of other sessions after the index query; it returns at most
\* `limit` matches, each a stored record with the target_lang and the
\* session_id asked for.
C18_DualFilter ==
  Found =>
    /\ Len(last.memory_results) <= last.limit
    /\ \A i \in 1..Len(last.memory_results) :
         \E j \in 1..Len(Matching(last.target_lang, last.session_id)) :
           Shown(Matching(last.target_lang, last.session_id)[j])
             = ShownOf(last.memory_results[i])
    /\ last.where =
         IF last.target_lang # ""
           THEN [field |-> "target_lang", value |-> last.target_lang]
         ELSE IF last.session_id # ""
           THEN [field |-> "session_id", value |-> last.session_id]
         ELSE [field |-> "none", value |-> ""]
    /\ (last.target_lang # "" /\ last.session_id # "" /\ last.query = "ok") =>
         /\ Len(last.memory_results) = Len(ClientSideFiltered)
         /\ \A i \in 1..Len(ClientSideFiltered) :
              ShownOf(last.memory_results[i]) = Shown(ClientSideFiltered[i])

\* C18 witness: with both filters a stored record matches both and is not
\* returned, the one candidate of the index being of another session
C18_Witness ==
  /\ Found /\ last.query = "ok" /\ last.limit = 1
  /\ last.target_lang # "" /\ last.session_id # ""
  /\ Len(Matching(last.target_lang, last.session_id)) >= last.limit
  /\ Len(last.memory_results) < last.limit

\* the records of a collection stored by sessions other than session_id
OfOthers(recs, session_id) ==
  SelectSeq(recs, LAMBDA r : r.session_id # session_id)

\* C19: after the session-clear operation for a session id no record of
\* that session remains in the primary collection, so that find_similar
\* returns none of them, and the records of the other sessions are as
\* before; storing and querying delete and change no stored record.
C19_ClearRemovesSessionRecords ==
  /\ (last.op = "memory_clear_session" /\ last.raised = "") =>
       /\ \A i \in 1..Len(translations) :
            translations[i].session_id # last.session_id
       /\ find_similar(translations, Hi, "", last.session_id, MaxStored, FALSE) = <<>>
       /\ OfOthers(translations, last.session_id)
            = OfOthers(last.before.translations, last.session_id)
  /\ last.op \in {"store_translation", "find_similar"} =>
       /\ Len(last.before.translations) <= Len(translations)
       /\ SubSeq(translations, 1, Len(last.before.translations))
            = last.before.translations

(***************************************************************************)
(* Properties of the dictionary, read from the record of the last call of  *)
(* get_exact_match and from the collection it read.                        *)
(***************************************************************************)
\* the entries added at runtime with a non-empty translation whose key,
\* lowercased and trimmed, is the text looked up, lowercased and trimmed
AddedFor(text) ==
  {i \in (Len(dictionary_terms) + 1)..Len(dictionary) :
     /\ Strip(Lower(dictionary[i].english_original)) = Strip(Lower(text))
     /\ dictionary[i].zulu # <<>>}

\* C20: after add_term(english, translation), get_exact_match of english
\* and of any differently-cased spelling of it returns the translation
\* added, with the capitalization of the text looked up applied, and not
\* None.
C20_AddThenLookup ==
  (last.op = "get_exact_match" /\ last.failing = {}
     /\ AddedFor(last.text) # {}) =>
    /\ last.candidate # None
    /\ \E i \in AddedFor(last.text) :
         last.candidate = CapitalizedAs(last.text, dictionary[i].zulu)

\* the variants of the text looked up whose probe did not raise, in probing
\* order, and those of them that are keys of the collection
Probed == SelectSeq(VariantsOf(last.text), LAMBDA v : v \notin last.failing)

IsKey(v) == \E i \in 1..Len(dictionary) : dictionary[i].english_original = v

Hits == SelectSeq(Probed, IsKey)

\* the value stored under a key: the first entry with it
ValueOf(v) ==
  dictionary[CHOOSE i \in 1..Len(dictionary) :
               /\ dictionary[i].english_original = v
               /\ \A j \in 1..(i - 1) : dictionary[j].english_original # v].zulu

Looked == last.op = "get_exact_match"

Got(h) == handlers[h].pc = "got"

\* h called _get_or_create_session for an id the registry did not hold while
\* the registry was at its capacity
CreatedAtCapacity(h) ==
  /\ Got(h)
  /\ handlers[h].session_id \notin Ids(handlers[h].found)
  /\ Len(handlers[h].found) >= MAX_SESSIONS

\* C22: each call of _get_or_create_session, whatever other requests are
\* waiting, leaves the registry that the call leaves when it runs alone on
\* the registry it found: at most one entry evicted, the new entry present,
\* the order that of the atomic call, no id twice, the size bound kept, and
\* no call failing.
C22_GetOrCreateAtomic ==
  /\ \A h \in HandlerIds :
       Got(h) =>
         /\ sessions = handlers[h].expect
         /\ Cardinality(Ids(handlers[h].found) \ Ids(sessions)) <= 1
         /\ handlers[h].session_id \in Ids(sessions)
  /\ \A h \in HandlerIds : handlers[h].pc # "failed"
  /\ Cardinality(Ids(sessions)) = Len(sessions)
  /\ Len(sessions) <= MAX_SESSIONS + 1

\* C22 witness: two requests for different new ids wait together on a
\* registry at its capacity; the first has evicted one entry and inserted
\* its own while the second is still waiting
C22_Witness ==
  \E h \in HandlerIds :
    \E g \in HandlerIds \ {h} :
      /\ CreatedAtCapacity(h)
      /\ Cardinality(Ids(handlers[h].found) \ Ids(sessions)) = 1
      /\ handlers[g].pc = "pending"
      /\ handlers[g].session_id # handlers[h].session_id
      /\ handlers[g].session_id \notin Ids(handlers[h].found)

\* h has been given a translator by _get_or_create_session
Given(h) == handlers[h].pc \in {"got", "counting", "done"}

\* C23: the calls of _get_or_create_session for one session id that return
\* while the id stays in the registry return the same translator, requests
\* that waited together for an unknown id included, and at most one
\* translator is created for an id while it stays in the registry.
C23_OneTranslatorPerSession ==
  /\ \A k \in SessionIds : creator[k].made <= 1
  /\ \A h \in HandlerIds :
       \A g \in HandlerIds :
         (/\ Given(h) /\ Given(g)
          /\ handlers[h].session_id = handlers[g].session_id
          /\ handlers[h].epoch = handlers[g].epoch) =>
           handlers[h].returned = handlers[g].returned

\* C23 witness: of three requests for the same unknown id that waited
\* together, one created the translator, the second has been given that
\* same translator, the third is still waiting
C23_Witness ==
  \E g \in HandlerIds :
    \E h \in HandlerIds \ {g} :
      \E f \in HandlerIds \ {g, h} :
        /\ handlers[g].pc = "done" /\ handlers[g].returned = g
        /\ handlers[g].session_id # DEFAULT_SESSION_ID
        /\ Got(h) /\ handlers[h].session_id = handlers[g].session_id
        /\ handlers[h].returned = g
        /\ handlers[f].pc = "pending"
        /\ handlers[f].session_id = handlers[g].session_id

\* the requests that have counted their resolution on the translator
\* registered for session id k
CountedOn(k) ==
  {h \in HandlerIds :
     /\ handlers[h].pc = "done" /\ handlers[h].session_id = k
     /\ handlers[h].returned = creator[k].by}

\* C24: the request_count of a registered translator is the number of
\* resolutions that have counted on it: of k resolutions on one translator
\* that have all completed, however their requests overlapped, none is lost.
C24_NoLostIncrement ==
  \A i \in 1..Len(sessions) :
    sessions[i].request_count = Cardinality(CountedOn(sessions[i].session_id))

\* C24 witness: three requests on the same session, waiting together before
\* the first ran, have all completed and its translator has counted three
C24_Witness ==
  \E i \in 1..Len(sessions) :
    /\ sessions[i].request_count = Cardinality(HandlerIds)
    /\ CountedOn(sessions[i].session_id) = HandlerIds

\* C25: a result with source=memory has as confidence the similarity of the
\* accepted match, which is above 0.7, whatever the scorer's score for the
\* cached output; its quality is the scorer's quality for that output, and
\* its translation is the output of the first match find_similar returns.
C25_MemoryResult ==
  (last.op = "translate" /\ last.result.source = "memory") =>
    LET top == TopMatch(Validated.sanitized_text, last.target_lang)
    IN /\ last.query = "ok"
       /\ top # <<>>
       /\ last.result.confidence = top[1].similarity
       /\ last.result.confidence > 70
       /\ last.result.quality =
            validate_output(Validated.sanitized_text, top[1].output, "memory").quality
       /\ last.result.translation = top[1].output

\* C25 witness: a result from the cache whose confidence, the similarity of
\* the match, is not the score the scorer gives the cached output
C25_Witness ==
  /\ last.op = "translate" /\ last.result.source = "memory"
  /\ last.result.confidence = last.similarity
  /\ last.result.confidence #
       validate_output(Validated.sanitized_text, last.result.translation,
                       "memory").score

\* the provider of the last resolution answered with the sanitized input
\* again, ignoring case
ProviderEchoed ==
  /\ last.op = "translate" /\ "provider" \in Range(last.stages)
  /\ last.api # None
  /\ Lower(last.api) = Lower(Validated.sanitized_text)

\* C26: when the provider returns a value that equals the sanitized input
\* ignoring case, nothing is stored in the cache and the resolution returns
\* the passthrough result: the sanitized input with source=none, never
\* source=api.
C26_EchoIsNotATranslation ==
  ProviderEchoed =>
    /\ "store" \notin Range(last.stages)
    /\ translations = last.before.translations
    /\ session_docs = last.before.session_docs
    /\ last.raised = ""
    /\ last.result.source = "none"
    /\ last.result.translation = Validated.sanitized_text

\* C27: when every prior stage missed or failed the resolution returns the
\* sanitized input unchanged with source=none, with quality medium and
\* confidence 0.8, or quality low and confidence 0.5 when the text contains
\* a placeholder marker.
C27_PassthroughResult ==
  (last.op = "translate" /\ "passthrough" \in Range(last.stages)) =>
    /\ last.raised = ""
    /\ last.result.source = "none"
    /\ last.result.translation = Validated.sanitized_text
    /\ IF HasPlaceholder(Validated.sanitized_text)
         THEN last.result.quality = "low" /\ last.result.confidence = 50
         ELSE last.result.quality = "medium" /\ last.result.confidence = 80

\* the text of the last lookup, lowercased and trimmed
Normalized == Strip(Lower(last.text))

\* the five variants of the normalized text, in the stated order
StatedForms ==
  << Normalized,
     Replace(Normalized, <<"&">>, <<"a","n","d">>),
     Replace(Normalized, <<"&">>, <<" ","a","n","d"," ">>),
     Replace(Normalized, <<".">>, <<>>),
     Replace(Normalized, <<" "," ">>, <<" ">>) >>

StartsWithThe(v) == StartsWithAt(v, 1, <<"t","h","e"," ">>)

\* followed by the ones that start with "the ", without that prefix
StatedVariants ==
  LET withThe == SelectSeq(StatedForms, StartsWithThe)
  IN StatedForms \o [i \in 1..Len(withThe) |-> Strip(Drop(withThe[i], 4))]

\* the stated variants that are keys of the collection and whose probe did
\* not raise, in the stated order
StatedHits ==
  SelectSeq(StatedVariants, LAMBDA v : v \notin last.failing /\ IsKey(v))

\* a stored value with the capitalization of the input of the last lookup
Recapitalized(zulu) ==
  IF IsUpper(last.text) THEN Upper(zulu)
  ELSE IF IsUpperChar(last.text[1]) THEN Capitalized(zulu)
  ELSE zulu

\* capitalizing an empty value after an input that starts with a capital and
\* is not all capitals fails
Recapitalizable(v) ==
  ~(ValueOf(v) = <<>> /\ ~IsUpper(last.text) /\ IsUpperChar(last.text[1]))

ValidatedInput == last.op = "validate_input"

\* the checks that reject, on the input of the last validation
EmptyFails == last.text = <<>> \/ Strip(last.text) = <<>>

LanguageFails == last.target_lang \notin supported_languages

LengthFails == Len(last.text) < min_length

InjectionFails == CheckInjection(SanitizeText(Truncate(last.text)))

\* the warnings of the heuristic checks
HeuristicWarnings ==
  {WarnRepeated, WarnUrl, WarnPunctuation, WarnVowels, WarnPatterns,
   WarnSequence, WarnCapitalization}

\* C29: validate_input runs its checks in the order empty input, language,
\* length, sanitization, injection, heuristics and stops at the first that
\* fails: an invalid result carries exactly one error, the one of the first
\* failing check in that order, the text is left as the checks before the
\* failing one left it, and no later check adds an error or a warning.
C29_FirstFailureOnly ==
  ValidatedInput =>
    /\ last.validation.errors =
         IF EmptyFails THEN <<ErrEmpty>>
         ELSE IF LanguageFails THEN <<ErrLanguage>>
         ELSE IF LengthFails THEN <<ErrTooShort>>
         ELSE IF InjectionFails THEN <<ErrDangerous>>
         ELSE <<>>
    /\ ~last.validation.is_valid =>
         /\ Len(last.validation.errors) = 1
         /\ Range(last.validation.warnings) \cap HeuristicWarnings = {}
         /\ (EmptyFails \/ LanguageFails) =>
              /\ last.validation.warnings = <<>>
              /\ last.validation.sanitized_text = last.text
         /\ ~(EmptyFails \/ LanguageFails) =>
              /\ last.validation.warnings = LengthWarnings(last.text)
              /\ last.validation.sanitized_text = SanitizeText(Truncate(last.text))

\* C29 witness: an empty text with an unsupported language is rejected with
\* the empty-input error alone
C29_Witness ==
  /\ ValidatedInput
  /\ EmptyFails /\ LanguageFails
  /\ last.validation.errors = <<ErrEmpty>>
  /\ last.validation.warnings = <<>>

\* C30: a validation result is invalid exactly when it has errors, and only
\* the four rejecting checks give it one: the truncation of a text longer
\* than max_length and the heuristic checks add warnings to a result that
\* stays valid.
C30_WarningsNeverInvalidate ==
  ValidatedInput =>
    /\ ~last.validation.is_valid <=> last.validation.errors # <<>>
    /\ last.validation.is_valid <=>
         ~(EmptyFails \/ LanguageFails \/ LengthFails \/ InjectionFails)
    /\ Range(last.validation.errors)
         \subseteq {ErrEmpty, ErrLanguage, ErrTooShort, ErrDangerous}
    /\ (last.validation.is_valid /\ Len(last.text) > max_length) =>
         /\ Len(last.validation.sanitized_text) <= max_length
         /\ WarnTruncated \in Range(last.validation.warnings)

\* C30 witness: a text longer than max_length is truncated and found by
\* heuristic checks, and the result is valid with their warnings
C30_Witness ==
  /\ ValidatedInput
  /\ Len(last.text) > max_length
  /\ Len(last.validation.sanitized_text) = max_length
  /\ last.validation.is_valid /\ last.validation.errors = <<>>
  /\ WarnTruncated \in Range(last.validation.warnings)
  /\ Range(last.validation.warnings) \cap HeuristicWarnings # {}


\* C31: a text that passed the checks before it and whose sanitized form
\* matches an injection pattern is rejected by validate_input with the
\* dangerous-content error alone, without the warnings of the heuristic
\* checks, and translate returns that error without entering any stage.
C31_InjectionRejected ==
  (last.op = "translate" /\ ~EmptyFails /\ ~LanguageFails /\ InjectionFails) =>
    /\ ~Validated.is_valid
    /\ Validated.errors = <<ErrDangerous>>
    /\ Range(Validated.warnings) \cap HeuristicWarnings = {}
    /\ last.raised = ""
    /\ last.result.error
    /\ last.result.errors = <<ErrDangerous>>
    /\ last.stages = <<"validate">>
    /\ last.query = "none" /\ last.api = None /\ last.store = "none"
    /\ translations = last.before.translations
    /\ session_docs = last.before.session_docs
    /\ Translator.request_count = last.before.request_count

\* C31 witness: "eval(aaaaa)", in which the heuristic checks would find a
\* run of five characters, is rejected without a warning
C31_Witness ==
  /\ last.op = "translate" /\ InjectionFails
  /\ HasRun(SanitizeText(last.text), 5)
  /\ Validated.warnings = <<>>
  /\ last.result.errors = <<ErrDangerous>>
  /\ last.stages = <<"validate">>


(***************************************************************************)
(* Properties of the two collections of the memory.                        *)
(***************************************************************************)
Aligned(recs, docs) == Len(recs) = Len(docs)

\* C32: every store that succeeds adds exactly one record to the primary
\* collection and one entry to the secondary collection, so that the two
\* collections, once of the same size, stay of the same size through every
\* step that is not a clear; and the result of find_similar is read from
\* the primary collection alone.
C32_CollectionsAligned ==
  [][/\ (last'.op = "store_translation" /\ last'.store = "ok") =>
          /\ Len(translations') = Len(translations) + 1
          /\ Len(session_docs') = Len(session_docs) + 1
     /\ (Aligned(translations, session_docs) /\ last'.op # "memory_clear_session") =>
          Aligned(translations', session_docs')
     /\ last'.op = "find_similar" =>
          last'.memory_results =
            find_similar(translations', last'.text, last'.target_lang,
                         last'.session_id, last'.limit, last'.query = "raised")]_vars


\* C33: the count of a translator starts at 0 and advances by one on each
\* resolution that reaches the provider and on no other, so that it is the
\* ordinal of the provider call; the call pauses exactly when that ordinal
\* is a multiple of 5.
C33_PauseEveryFifthCall ==
  /\ last.op = "startup" => Translator.request_count = 0
  /\ last.op = "translate" =>
       IF "provider" \in Range(last.stages)
         THEN /\ Translator.request_count = last.before.request_count + 1
              /\ last.paused <=> Translator.request_count \in {5, 10, 15}
         ELSE /\ Translator.request_count = last.before.request_count
              /\ ~last.paused

\* C33 witness: the tenth provider call of the translator paused
C33_Witness ==
  /\ last.op = "translate" /\ "provider" \in Range(last.stages)
  /\ Translator.request_count = 10
  /\ last.paused

\* the complete records of the log file: the text of a record directly
\* followed by its own end
Records(file) ==
  {i \in 1..Len(file) - 1 :
     /\ file[i].part = "record"
     /\ file[i + 1] = Chunk(file[i].by, "newline")}

\* every chunk of the file belongs to a record that is complete, or is the
\* text of the record being written at the end of the file
WholeLines(file) ==
  \A i \in 1..Len(file) :
    \/ i \in Records(file)
    \/ i > 1 /\ i - 1 \in Records(file)
    \/ i = Len(file) /\ file[i].part = "record"

Logged(t) == At(t, "written") \/ At(t, "done")

\* C34: the logger serialises appends with its own lock: whatever the
\* interleaving of the calls of log, the file holds whole records only, one
\* for every call that has written, and no record twice; the lock is held by
\* the one thread between acquiring and releasing it, and the steps of log
\* leave the session registry alone
C34_LogAppendsSerialised ==
  /\ WholeLines(logger.log_file)
  /\ Cardinality(Records(logger.log_file)) =
       Cardinality({t \in LogThreads : Logged(t)})
  /\ \A t \in LogThreads :
       /\ Logged(t) =>
            Cardinality({i \in Records(logger.log_file) :
                           logger.log_file[i].by = t}) = 1
       /\ (At(t, "locked") \/ At(t, "writing") \/ At(t, "written"))
            <=> logger._lock = t
  /\ sessions = <<sessions[1]>>
  /\ accessed = <<DEFAULT_SESSION_ID>>
  /\ last = NoOp

\* one call has returned, a second is in the middle of its record while a
\* third waits for the lock
C34_Witness ==
  \E t, u, v \in LogThreads :
    /\ At(t, "done") /\ At(u, "writing") /\ At(v, "entry")
    /\ logger._lock = u
    /\ logger.log_file =
         <<Chunk(t, "record"), Chunk(t, "newline"), Chunk(u, "record")>>

\* the entries of a registry other than the one of session_id, in its order
Others(sess, session_id) ==
  SelectSeq(sess, LAMBDA t : t.session_id # session_id)

\* the last call asked for an id the registry already held
FoundEntry ==
  /\ last.op \in {"get_or_create", "api_translate"}
  /\ last.session_id \in Ids(last.pool)

\* C35: _get_or_create_session on an id the registry holds moves that entry,
\* as it is, to the most recently used end and changes nothing else: the same
\* ids are registered, none is evicted or created even at capacity, the other
\* entries keep their order, and the translator found is the one returned
C35_ExistingMovedToEnd ==
  FoundEntry =>
    /\ Len(sessions) = Len(last.pool)
    /\ Ids(sessions) = Ids(last.pool)
    /\ Evicted = {}
    /\ list_sessions(sessions) =
         Append(list_sessions(Others(last.pool, last.session_id)),
                last.session_id)
    /\ last.op = "get_or_create" =>
         sessions = Append(Others(last.pool, last.session_id),
                           last.pool[IndexOf(last.pool, last.session_id)])

\* at capacity, an id that was not the most recently used one is asked for
\* again and moves behind the others
C35_Witness ==
  /\ FoundEntry
  /\ last.op = "get_or_create"
  /\ AtCapacity
  /\ Len(last.pool) >= 3
  /\ last.pool[2].session_id = last.session_id
  /\ sessions[Len(sessions)].session_id = last.session_id
  /\ sessions[2] = last.pool[3]

\* a banned pattern other than the script tag
OtherInjection(s) ==
  \/ MatchesEval(Lower(s))
  \/ Contains(Lower(s), <<"j","a","v","a","s","c","r","i","p","t",":">>)
  \/ MatchesHandler(Lower(s), <<"o","n","l","o","a","d">>)
  \/ MatchesHandler(Lower(s), <<"o","n","e","r","r","o","r">>)

\* the last validation sanitized its text and checked it for injection
InjectionCheckRan ==
  ValidatedInput /\ ~EmptyFails /\ ~LanguageFails /\ ~LengthFails

\* what sanitization after the tags does to a text
Tidied(s) == StripControl(Strip(CollapseSpaces(s)))

\* C36 as stated: no input is rejected on account of the script-tag pattern,
\* and a text <script ...>body</script> whose body matches no other banned
\* pattern is valid, with the body as its sanitized text
C36_ScriptBodyIsSanitizedText ==
  InjectionCheckRan =>
    /\ ~MatchesScript(Lower(last.validation.sanitized_text))
    /\ \A open \in ScriptOpens, body \in ScriptBodies :
         (last.text = ScriptText(open, body) /\ ~OtherInjection(body)) =>
           /\ last.validation.is_valid
           /\ last.validation.sanitized_text = body

\* C36: tags are stripped before the injection check, so no sanitized text
\* matches the script-tag pattern, and an input is rejected as dangerous
\* exactly when its sanitized text matches one of the other patterns; a text
\* <script ...>body</script> whose body has no "<" is sanitized to the body
\* with its whitespace collapsed and trimmed and its control characters
\* removed, and is valid exactly when that text matches no other pattern
C36_ScriptPatternNeverRejects ==
  InjectionCheckRan =>
    /\ ~MatchesScript(Lower(last.validation.sanitized_text))
    /\ last.validation.is_valid <=>
         ~OtherInjection(last.validation.sanitized_text)
    /\ \A open \in ScriptOpens, body \in ScriptBodies :
         (last.text = ScriptText(open, body) /\ ~Contains(body, <<"<">>)) =>
           /\ last.validation.sanitized_text = Tidied(body)
           /\ last.validation.is_valid <=> ~OtherInjection(Tidied(body))

\* a script element with a blank-padded body is accepted, its sanitized text
\* the trimmed body
C36_Witness ==
  /\ InjectionCheckRan
  /\ last.text = ScriptText(<<"<","s","c","r","i","p","t",">">>, <<" ","x"," ">>)
  /\ last.validation.is_valid
  /\ last.validation.sanitized_text = <<"x">>

\* the records of the cache, as the last resolution found it, that hold its
\* sanitized text for its target language
CachedFor ==
  {i \in 1..Len(last.before.translations) :
     /\ last.before.translations[i].input = Validated.sanitized_text
     /\ last.before.translations[i].target_lang = last.target_lang}

\* the last resolution reached the cache: its input is valid and no
\* dictionary term answers it
ReachesCache ==
  /\ last.op = "translate"
  /\ Validated.is_valid
  /\ ~Truthy(get_exact_match(dictionary, Validated.sanitized_text))

\* the first match find_similar gave the last resolution
FirstMatch == TopMatch(Validated.sanitized_text, last.target_lang)[1]

\* C37 as stated: the cache is shared across sessions, so a resolution of a
\* text some session stored for the same language is a memory hit with a
\* stored translation, and a memory hit is never a record of another language
C37_SharedAcrossSessions ==
  ReachesCache =>
    /\ CachedFor # {} =>
         /\ last.result.source = "memory"
         /\ \E i \in CachedFor :
              last.result.translation = last.before.translations[i].output
    /\ last.result.source = "memory" =>
         /\ TopMatch(Validated.sanitized_text, last.target_lang) # <<>>
         /\ FirstMatch.target_lang = last.target_lang
         /\ last.result.translation = FirstMatch.output

\* C37: the lookup of translate filters by target language and never by
\* session: when the resolving translator has a memory and its query does not
\* raise, a text that any session stored for the same language is a memory
\* hit with a translation stored for it, without a provider call; a memory
\* hit is never a record of another language
C37_SharedWhenQueried ==
  ReachesCache =>
    /\ (CachedFor # {} /\ last.memory /\ last.query # "raised") =>
         /\ last.result.source = "memory"
         /\ \E i \in CachedFor :
              last.result.translation = last.before.translations[i].output
         /\ last.stages = <<"validate", "dictionary", "memory">>
         /\ Translator.request_count = last.before.request_count
    /\ last.result.source = "memory" =>
         /\ TopMatch(Validated.sanitized_text, last.target_lang) # <<>>
         /\ FirstMatch.target_lang = last.target_lang
         /\ last.result.translation = FirstMatch.output
         /\ last.memory

\* session s1 gets as a memory hit what the default session stored
C37_Witness ==
  /\ ReachesCache
  /\ last.session_id = "s1"
  /\ last.result.source = "memory"
  /\ \E i \in CachedFor :
       /\ last.before.translations[i].session_id = DEFAULT_SESSION_ID
       /\ last.before.translations[i].output = last.result.translation

\* the record store_translation writes for the resolution that just ended
StoredRecord ==
  [input |-> ValidationTable[Request(last'.text, last'.target_lang)].sanitized_text,
   output |-> last'.result.translation,
   target_lang |-> last'.target_lang, session_id |-> last'.session_id]

\* C38 as stated: a resolution leaves the dictionary unchanged; one that ends
\* in a validation error, a dictionary hit, a memory hit or passthrough leaves
\* the cache unchanged, and one satisfied by a genuine provider result adds
\* exactly one record to it
C38_ProviderResultAddsOneRecord ==
  [][last'.op = "translate" =>
       /\ dictionary' = dictionary
       /\ IF last'.result.source = "api"
            THEN translations' = Append(translations, StoredRecord)
            ELSE /\ translations' = translations
                 /\ session_docs' = session_docs]_vars

\* C38: a resolution leaves the dictionary unchanged; only a resolution
\* satisfied by a genuine provider result reaches the store, and only when
\* its translator has a memory; it then adds exactly one record to the cache,
\* unless the write of that record fails, and nothing otherwise; every other
\* resolution leaves both collections of the memory unchanged
C38_OnlyStoredProviderResultAddsRecord ==
  [][last'.op = "translate" =>
       /\ dictionary' = dictionary
       /\ last'.store # "none" <=> (last'.result.source = "api" /\ last'.memory)
       /\ IF last'.store \in {"ok", "fail_secondary"}
            THEN translations' = Append(translations, StoredRecord)
            ELSE translations' = translations
       /\ IF last'.store = "ok"
            THEN Len(session_docs') = Len(session_docs) + 1
            ELSE session_docs' = session_docs]_vars

\* a provider result was stored: the cache has one record more, the one of
\* this resolution
C38_Witness ==
  /\ last.op = "translate"
  /\ last.result.source = "api"
  /\ last.store = "ok"
  /\ Len(translations) = Len(last.before.translations) + 1
  /\ translations[Len(translations)].output = last.result.translation

\* the entry of the registry for the id of the last call
Entry(sess) == sess[IndexOf(sess, last.session_id)]

\* the last call was one on the registry
RegistryCall == last.op \in {"get_or_create", "clear_session"}

\* C39: a translator that _get_or_create_session creates starts with
\* request_count 0, also for an id that was registered, counted requests and
\* was evicted or cleared; a call on the registry leaves the counters of the
\* entries it keeps as they were, so the total reported by /health and
\* /stats after it is the total before it less the counters of the entries
\* that left: it never grows by a call on the registry and nothing is restored
C39_FreshTranslatorCountsFromZero ==
  RegistryCall =>
    /\ CreatedEntry => Entry(sessions).request_count = 0
    /\ \A i \in 1..Len(sessions) :
         \/ \E j \in 1..Len(last.pool) : sessions[i] = last.pool[j]
         \/ /\ CreatedEntry
            /\ sessions[i] = create_translator(last.session_id, sessions[i].memory)
    /\ total_translations(sessions) =
         total_translations(SelectSeq(last.pool, LAMBDA t :
                              t.session_id \in Ids(sessions)))
    /\ total_translations(sessions) <= total_translations(last.pool)

\* s1, which had stored a translation before it left the registry, is
\* requested again: it gets a translator that has counted nothing, and the
\* session evicted for it takes its counter out of the total
C39_Witness ==
  /\ last.op = "get_or_create"
  /\ CreatedEntry
  /\ last.session_id = "s1"
  /\ \E i \in 1..Len(translations) : translations[i].session_id = "s1"
  /\ Entry(sessions).request_count = 0
  /\ total_translations(sessions) < total_translations(last.pool)

====
